---- MODULE Spec2Model ----
(***************************************************************************)
(* Pagination/parity engine of forever_journal.py (generate_tex).          *)
(*                                                                         *)
(* One run of generate_tex is a deterministic walk over the sections       *)
(*   cover page -> 12 x (month summary, daily pages) -> event lists        *)
(*   -> extra pages -> source appendix.                                    *)
(* The arguments of generate_tex are chosen in Init; every later step is   *)
(* one page-sized piece of the function body (one loop iteration or one    *)
(* section prologue).  The output stream f is modelled page by page: one   *)
(* token per filler page (\null\newpage) and one per content page.         *)
(***************************************************************************)
EXTENDS Integers, Sequences, FiniteSets, TLC

VARIABLES
    test_mode,            \* generate_tex argument
    spread_mode,          \* generate_tex argument: "2up" | "4up"
    align_mode,           \* generate_tex argument: "mirrored" | "left"
    event_lists_enabled,  \* generate_tex argument
    include_source,       \* generate_tex argument
    num_years,            \* generate_tex argument (NUM_YEARS)
    num_writing_lines,    \* generate_tex argument (NUM_WRITING_LINES)
    toc_enabled,          \* generate_tex argument
    whimsy,               \* generate_tex argument
    kanji_enabled,        \* generate_tex argument
    error,                \* the exception that ended the run, or "none"
    preamble_written,     \* the preamble has been written to f
    block_h,              \* local BLOCK_H, as the pair <<dividend, divisor>>
    cal,                  \* last call of a module-level function or command
    pc,                   \* position in the body of generate_tex
    month,                \* loop variable of "for month in range(1, 13)"
    chunk_i,              \* loop variable i of the daily chunk loop
    el_i,                 \* loop variable i of the event-list loop
    extra_i,              \* loop variable i of the extra-pages loop
    num_extra_pages,      \* local num_extra_pages
    event_list_counter,   \* nonlocal event_list_counter
    physical_page_count,  \* nonlocal physical_page_count
    page_num,             \* local page_num (logical page number)
    out,                  \* the output stream f, one token per page
    ep_calls,             \* log: ensure_parity calls since the last page write
    last,                 \* log: what the last step did
    n_skipped,            \* log: pages skipped in test mode so far
    n_passed,             \* log: logical numbers passed over by a forced odd start
    full_page_num,        \* page_num of the same run with test_mode = False
    doc                   \* log: ToC rows, \label lines and sections written to f

vars == << test_mode, spread_mode, align_mode, event_lists_enabled,
           include_source, num_years, num_writing_lines, toc_enabled,
           whimsy, kanji_enabled, error,
           preamble_written, block_h, cal, pc, month, chunk_i, el_i, extra_i,
           num_extra_pages, event_list_counter, physical_page_count,
           page_num, out, ep_calls, last, n_skipped, n_passed,
           full_page_num, doc >>

config == << test_mode, spread_mode, align_mode, event_lists_enabled,
             include_source, num_years, num_writing_lines, toc_enabled,
             whimsy, kanji_enabled >>

setup_vars == << error, preamble_written, block_h >>

\* everything generate_tex owns
run_vars == << config, setup_vars, pc, month, chunk_i, el_i, extra_i,
               num_extra_pages, event_list_counter, physical_page_count,
               page_num, out, ep_calls, last, n_skipped, n_passed,
               full_page_num, doc >>

(***************************************************************************)
(* Program constants                                                       *)
(***************************************************************************)
START_YEAR == 2026

\* num_years ranges over 1..MaxNumYears
MaxNumYears == 3

\* default of the num_writing_lines argument
DEFAULT_NUM_WRITING_LINES == 5

\* A4 paper height and the margins, mm
PAGE_H == 297

TARGET_MARGIN_TOP == 5

TARGET_MARGIN_BOTTOM == 12

HEADER_H == 6

ESTIMATED_TEXT_HEIGHT == PAGE_H - TARGET_MARGIN_TOP - TARGET_MARGIN_BOTTOM

USABLE_H == ESTIMATED_TEXT_HEIGHT - HEADER_H - 2

\* Python's true division a / b, kept exact as the pair <<a, b>>; b = 0 is
\* the ZeroDivisionError case and is tested by the caller.
TrueDiv(a, b) == << a, b >>

TITLE_PAGE_NUM == 1

FIRST_PAGE_NUM_bad == TITLE_PAGE_NUM

FIRST_PAGE_NUM == 2

NUM_EVENT_LISTS == 6

MIN_EXTRA_PAGES == 10

SpreadModes == {"2up", "4up"}

AlignModes == {"mirrored", "left"}

(***************************************************************************)
(* Calendar helpers (calendar.isleap, calendar.monthrange)                 *)
(***************************************************************************)
isleap(y) == (y % 4 = 0) /\ ((y % 100 # 0) \/ (y % 400 = 0))

RECURSIVE first_leap_from(_)
first_leap_from(y) == IF isleap(y) THEN y ELSE first_leap_from(y + 1)

\* The reference year without the search for a leap year.
ref_year_start == START_YEAR

ref_year == first_leap_from(START_YEAR)

monthrange_days(y, m) ==
    IF m = 2 THEN (IF isleap(y) THEN 29 ELSE 28)
    ELSE IF m \in {4, 6, 9, 11} THEN 30 ELSE 31

days_in_month(m) == monthrange_days(ref_year, m)

DAYS_PER_PAGE(spread) == IF spread = "4up" THEN 2 ELSE 1

(***************************************************************************)
(* is_test_content.  Arguments that the caller leaves at None are 0 here.  *)
(***************************************************************************)
is_test_content(tm, section, m, day, page_idx) ==
    IF ~tm THEN TRUE
    ELSE IF section = "TITLE" THEN TRUE
    ELSE IF section = "MONTH_SUMMARY" THEN m = 2
    ELSE IF section = "DAILY" THEN
           \/ (m = 2 /\ day \in {1, 2, 3, 4})
           \/ (m = 2 /\ day = 29)
           \/ (m = 6 /\ day = 30)
           \/ (m = 11 /\ day \in {29, 30})
           \/ (m = 12 /\ day \in {29, 30, 31})
    ELSE IF section = "YEAR_MONTH_SUMMARY" THEN m = 2
    ELSE IF section = "EXTRA_PAGES" THEN page_idx \in {0, 1, 19, 20}
    ELSE IF section = "SOURCE" THEN TRUE
    ELSE FALSE

(***************************************************************************)
(* The page stream: physical_page_count, the output f and the call log     *)
(* travel together through the nested helpers.                             *)
(***************************************************************************)
Cur == [phys |-> physical_page_count, out |-> out, calls |-> ep_calls]

Token(kind, page, pos) == [kind |-> kind, page |-> page, pos |-> pos]

ContentKinds == {"title", "summary", "daily", "eventlist", "extra"}

\* ensure_parity that never writes a filler page.
ensure_parity_never(st, logical_page_num) == st

\* ensure_parity without its guard: a filler page on every call.
ensure_parity_always(st, logical_page_num) ==
    [st EXCEPT !.out = Append(st.out, Token("filler", 0, st.phys + 1)),
               !.phys = st.phys + 1]

\* ensure_parity comparing with the parity of the pages already written.
ensure_parity_offbyone(st, logical_page_num) ==
    LET target_parity == logical_page_num % 2
        next_physical_parity == st.phys % 2
    IN  IF target_parity # next_physical_parity
        THEN [st EXCEPT !.out = Append(st.out, Token("filler", 0, st.phys + 1)),
                        !.phys = st.phys + 1]
        ELSE st

\* ensure_parity padding with a whole sheet (two filler pages).
ensure_parity_sheet(st, logical_page_num) ==
    LET target_parity == logical_page_num % 2
        next_physical_parity == (st.phys + 1) % 2
    IN  IF target_parity # next_physical_parity
        THEN [st EXCEPT !.out = Append(Append(st.out,
                                   Token("filler", 0, st.phys + 1)),
                                   Token("filler", 0, st.phys + 2)),
                        !.phys = st.phys + 2]
        ELSE st

ensure_parity(st, logical_page_num) ==
    LET target_parity == logical_page_num % 2
        next_physical_parity == (st.phys + 1) % 2
    IN  IF target_parity # next_physical_parity
        THEN [st EXCEPT !.out = Append(st.out, Token("filler", 0, st.phys + 1)),
                        !.phys = st.phys + 1]
        ELSE st

\* A call of ensure_parity, entered in the call log.  The log is restarted
\* when something was written to f since the previous call.
call_ensure_parity(st, logical_page_num) ==
    LET st2 == ensure_parity(st, logical_page_num)
        rec == [target     |-> logical_page_num,
                before     |-> st.phys,
                after      |-> st2.phys,
                out_before |-> Len(st.out),
                out_after  |-> Len(st2.out)]
        prior == IF st.calls # << >>
                    /\ st.calls[Len(st.calls)].out_after = Len(st.out)
                 THEN st.calls ELSE << >>
    IN  [st2 EXCEPT !.calls = Append(prior, rec)]

\* A content page written without counting it.
write_page_nocount(st, kind, page) ==
    [st EXCEPT !.out = Append(st.out, Token(kind, page, st.phys + 1))]

\* A content page: its markup, \newpage, physical_page_count += 1.
write_page(st, kind, page) ==
    [st EXCEPT !.out = Append(st.out, Token(kind, page, st.phys + 1)),
               !.phys = st.phys + 1]

\* "Ensure we start on an Odd (Right) page" testing the wrong parity.
start_on_odd_wrongside(st, pn) ==
    LET skip == (pn % 2 = 1)
        st1  == IF skip THEN call_ensure_parity(st, pn + 1) ELSE st
        pn1  == IF skip THEN pn + 1 ELSE pn
    IN  [st |-> call_ensure_parity(st1, pn1), page_num |-> pn1]

\* "Ensure we start on an Odd (Right) page" forgetting page_num += 1.
start_on_odd_noinc(st, pn) ==
    LET skip == (pn % 2 = 0)
        st1  == IF skip THEN call_ensure_parity(st, pn + 1) ELSE st
    IN  [st |-> call_ensure_parity(st1, pn), page_num |-> pn]

\* "Ensure we start on an Odd (Right) page": the block
\*     if page_num % 2 == 0: ensure_parity(page_num + 1); page_num += 1
\*     ensure_parity(page_num)
start_on_odd(st, pn) ==
    LET skip == (pn % 2 = 0)
        st1  == IF skip THEN call_ensure_parity(st, pn + 1) ELSE st
        pn1  == IF skip THEN pn + 1 ELSE pn
    IN  [st |-> call_ensure_parity(st1, pn1), page_num |-> pn1]

\* generate_month_summary forgetting to count the page it handled.
generate_month_summary_noinc(tm, st, m, pn) ==
    IF is_test_content(tm, "MONTH_SUMMARY", m, 0, 0)
    THEN LET a == start_on_odd(st, pn)
         IN  [st       |-> write_page(a.st, "summary", a.page_num),
              page_num |-> a.page_num,
              rendered |-> TRUE,
              stamped  |-> a.page_num]
    ELSE [st |-> st, page_num |-> pn, rendered |-> FALSE, stamped |-> pn]

\* generate_month_summary forcing the odd start even for a suppressed page.
generate_month_summary_skipalign(tm, st, m, pn) ==
    LET a == start_on_odd(st, pn)
    IN  IF is_test_content(tm, "MONTH_SUMMARY", m, 0, 0)
        THEN [st       |-> write_page(a.st, "summary", a.page_num),
              page_num |-> a.page_num + 1,
              rendered |-> TRUE,
              stamped  |-> a.page_num]
        ELSE [st |-> a.st, page_num |-> a.page_num + 1,
              rendered |-> FALSE, stamped |-> a.page_num]

\* generate_month_summary(month, page_num): the page stream after the call,
\* the returned page number, whether the page was rendered, and the number
\* written by \setcounter{page} (the number of the page handled).
generate_month_summary(tm, st, m, pn) ==
    IF is_test_content(tm, "MONTH_SUMMARY", m, 0, 0)
    THEN LET a == start_on_odd(st, pn)
         IN  [st       |-> write_page(a.st, "summary", a.page_num),
              page_num |-> a.page_num + 1,
              rendered |-> TRUE,
              stamped  |-> a.page_num]
    ELSE [st |-> st, page_num |-> pn + 1, rendered |-> FALSE, stamped |-> pn]

(***************************************************************************)
(* Daily pages                                                             *)
(***************************************************************************)
\* The slice taken without stopping at the end of the month.
chunk_overrun(m, i, dpp) == [k \in 1..dpp |-> i + k]

\* chunk = month_days[i:i + DAYS_PER_PAGE], as the sequence of its days
chunk(m, i, dpp) ==
    LET hi == IF i + dpp <= days_in_month(m) THEN i + dpp ELSE days_in_month(m)
    IN  [k \in 1..(hi - i) |-> i + k]

is_chunk_test(tm, m, ch) ==
    IF ~tm THEN TRUE
    ELSE \E k \in 1..Len(ch) : is_test_content(tm, "DAILY", m, ch[k], 0)

has_blank_col(ch, dpp) == (Len(ch) = 1 /\ dpp = 2)

is_inner_col_swapped(pn, col_idx) ==
    IF pn % 2 = 0 THEN col_idx = 0 ELSE col_idx = 1

is_inner_col(pn, col_idx) ==
    IF pn % 2 = 0 THEN col_idx = 1 ELSE col_idx = 0

align_right_evenpages(am, pn) ==
    IF am = "mirrored" THEN pn % 2 = 0 ELSE FALSE

align_right(am, pn) ==
    IF am = "mirrored" THEN pn % 2 # 0
    ELSE FALSE

label_anchor(ar) == IF ar THEN "north east" ELSE "north west"

label_align_txt(ar) == IF ar THEN "right" ELSE "left"

show_month(dpp, inner, m, day) ==
    IF dpp = 2 /\ inner THEN day = days_in_month(m) ELSE TRUE

\* The year loop leaving out the whole block of a skipped row.
daily_blocks_skiprow(ny, m, day, ar) ==
    SelectSeq([y \in 1..ny |->
        LET curr_year    == START_YEAR + (y - 1)
            is_leap_year == isleap(curr_year)
            is_feb_29    == (m = 2 /\ day = 29)
            skip_content == is_feb_29 /\ ~is_leap_year
        IN  [year           |-> curr_year,
             skip_content   |-> skip_content,
             h              |-> block_h,
             labels         |-> IF ~skip_content
                                THEN << [node      |-> "year",
                                         anchor    |-> label_anchor(ar),
                                         align_txt |-> label_align_txt(ar)],
                                        [node      |-> "day",
                                         anchor    |-> label_anchor(ar),
                                         align_txt |-> label_align_txt(ar)] >>
                                ELSE << >>,
             top_border     |-> (y = 1),
             kanji          |-> ~skip_content /\ kanji_enabled,
             events_for     |-> IF ~skip_content
                                THEN << curr_year, m, day >> ELSE << >>,
             use_whimsy     |-> ~skip_content /\ whimsy,
             circles        |-> IF ~skip_content THEN 2 ELSE 0,
             p_prompt       |-> ~skip_content,
             guide_lines    |-> IF ~skip_content /\ num_writing_lines > 1
                                THEN num_writing_lines - 1 ELSE 0,
             bottom_divider |-> TRUE]],
              LAMBDA b : ~b.skip_content)

\* "for y_idx in range(NUM_YEARS)": the blocks of one column.  Every block
\* has its bounding box of height h = BLOCK_H and its bottom divider; a
\* block whose content is skipped gets no label nodes, no event text (the
\* text is that of get_special_events for events_for), no guide circles, no
\* continuation prompt and no guide lines.
daily_blocks(ny, m, day, ar) ==
    [y \in 1..ny |->
        LET curr_year    == START_YEAR + (y - 1)
            is_leap_year == isleap(curr_year)
            is_feb_29    == (m = 2 /\ day = 29)
            skip_content == is_feb_29 /\ ~is_leap_year
        IN  [year           |-> curr_year,
             skip_content   |-> skip_content,
             h              |-> block_h,
             labels         |-> IF ~skip_content
                                THEN << [node      |-> "year",
                                         anchor    |-> label_anchor(ar),
                                         align_txt |-> label_align_txt(ar)],
                                        [node      |-> "day",
                                         anchor    |-> label_anchor(ar),
                                         align_txt |-> label_align_txt(ar)] >>
                                ELSE << >>,
             top_border     |-> (y = 1),
             kanji          |-> ~skip_content /\ kanji_enabled,
             events_for     |-> IF ~skip_content
                                THEN << curr_year, m, day >> ELSE << >>,
             use_whimsy     |-> ~skip_content /\ whimsy,
             circles        |-> IF ~skip_content THEN 2 ELSE 0,
             p_prompt       |-> ~skip_content,
             guide_lines    |-> IF ~skip_content /\ num_writing_lines > 1
                                THEN num_writing_lines - 1 ELSE 0,
             bottom_divider |-> TRUE]]

\* The columns of one daily page, col_idx = 0 .. DAYS_PER_PAGE - 1.
daily_columns(dpp, am, ny, m, ch, pn) ==
    [c \in 1..dpp |->
        LET col_idx == c - 1 IN
        IF col_idx < Len(ch)
        THEN [col_idx     |-> col_idx,
              content     |-> "day",
              month       |-> m,
              day         |-> ch[c],
              is_inner    |-> is_inner_col(pn, col_idx),
              align_right |-> align_right(am, pn),
              blocks      |-> daily_blocks(ny, m, ch[c], align_right(am, pn)),
              show_month  |-> show_month(dpp, is_inner_col(pn, col_idx), m, ch[c])]
        ELSE [col_idx     |-> col_idx,
              content     |-> IF has_blank_col(ch, dpp) THEN "blank" ELSE "none",
              month       |-> m,
              day         |-> 0,
              is_inner    |-> FALSE,
              align_right |-> FALSE,
              blocks      |-> << >>,
              show_month  |-> FALSE]]

\* The extra-page count always taking the longer section.
num_extra_pages_for_eleven(pn) == MIN_EXTRA_PAGES + 1

\* The extra-page count with the parity test inverted.
num_extra_pages_for_inverted(pn) ==
    IF (pn + MIN_EXTRA_PAGES) % 2 = 1 THEN MIN_EXTRA_PAGES + 1
    ELSE MIN_EXTRA_PAGES

num_extra_pages_for(pn) ==
    IF (pn + MIN_EXTRA_PAGES) % 2 = 0 THEN MIN_EXTRA_PAGES + 1
    ELSE MIN_EXTRA_PAGES

(***************************************************************************)
(* State machine                                                           *)
(***************************************************************************)
Step(kind, page, pos, cols) ==
    [kind |-> kind, page |-> page, pos |-> pos, cols |-> cols]

SetStream(st) ==
    /\ physical_page_count' = st.phys
    /\ out' = st.out
    /\ ep_calls' = st.calls

NoCall == [fn |-> "none"]

\* A section of the document and its \label: sec:title, sec:month_m,
\* sec:event_list_n, sec:extra_pages, sec:source.
Section(name, n) == << name, n >>

\* The rows of the table of contents, as pairs << section, entry >>: the
\* entry is "pageref" (\hyperref ... \pageref) or "skipped" ("(Skipped)").
\* The \eventlistrow rows are resolved by LaTeX and write nothing here.
toc_rows(tm, src) ==
    {<< Section("title", 0), "pageref" >>}
    \cup {<< Section("month", m),
             IF is_test_content(tm, "MONTH_SUMMARY", m, 0, 0)
             THEN "pageref" ELSE "skipped" >> : m \in 1..12}
    \cup {<< Section("extra_pages", 0),
             IF ~tm THEN "pageref" ELSE "skipped" >>}
    \cup (IF src THEN {<< Section("source", 0), "pageref" >>} ELSE {})

\* f.write(\label{sec:...}) at the head of a section's first page
Labelled(d, sec) ==
    [d EXCEPT !.labels = @ \cup {sec}, !.sections = @ \cup {sec}]

\* a page of a section written without a label
Written(d, sec) == [d EXCEPT !.sections = @ \cup {sec}]

\* Entry of generate_tex with the arguments drawn from the given sets.
InitRun(NumYears, NumLines, Flags) ==
    /\ test_mode \in BOOLEAN
    /\ spread_mode \in SpreadModes
    /\ align_mode \in AlignModes
    /\ event_lists_enabled \in BOOLEAN
    /\ include_source \in BOOLEAN
    /\ num_years \in NumYears
    /\ num_writing_lines \in NumLines
    /\ toc_enabled \in Flags
    /\ whimsy \in Flags
    /\ kanji_enabled \in Flags
    /\ error = "none"
    /\ preamble_written = FALSE
    /\ block_h = << 0, 1 >>
    /\ cal = NoCall
    /\ pc = "setup"
    /\ month = 1
    /\ chunk_i = 0
    /\ el_i = 0
    /\ extra_i = 0
    /\ num_extra_pages = 0
    /\ event_list_counter = 1
    /\ physical_page_count = 0
    /\ page_num = TITLE_PAGE_NUM
    /\ out = << >>
    /\ ep_calls = << >>
    /\ last = Step("init", 0, 0, << >>)
    /\ n_skipped = 0
    /\ n_passed = 0
    /\ full_page_num = TITLE_PAGE_NUM
    /\ doc = [toc |-> {}, labels |-> {}, sections |-> {}]

Init == InitRun(1..MaxNumYears, {DEFAULT_NUM_WRITING_LINES}, {FALSE})

\* "Shadow globals", BLOCK_H = USABLE_H / NUM_YEARS, open(output_tex) and
\* the preamble.  The division raises before the file is opened.
Setup ==
    /\ pc = "setup"
    /\ IF num_years = 0
       THEN /\ error' = "ZeroDivisionError"
            /\ pc' = "crashed"
            /\ UNCHANGED << preamble_written, block_h >>
       ELSE /\ block_h' = TrueDiv(USABLE_H, num_years)
            /\ preamble_written' = TRUE
            /\ pc' = "title"
            /\ UNCHANGED error
    /\ UNCHANGED << config, cal, month, chunk_i, el_i, extra_i,
                    num_extra_pages, event_list_counter, physical_page_count,
                    page_num, out, ep_calls, last, n_skipped, n_passed,
                    full_page_num, doc >>

\* --- COVER PAGE --- and "page_num = 2".  The info box divides by
\* NUM_WRITING_LINES after the title page has been begun.
CoverPage ==
    /\ pc = "title"
    /\ IF is_test_content(test_mode, "TITLE", 0, 0, 0) /\ num_writing_lines = 0
       THEN LET st1 == call_ensure_parity(Cur, TITLE_PAGE_NUM)
            IN  /\ physical_page_count' = st1.phys
                /\ ep_calls' = st1.calls
                /\ out' = Append(st1.out, Token("title_partial",
                                                TITLE_PAGE_NUM, st1.phys + 1))
                /\ last' = Step("crash", TITLE_PAGE_NUM, st1.phys + 1, << >>)
                /\ error' = "ZeroDivisionError"
                /\ pc' = "crashed"
                /\ UNCHANGED << page_num, full_page_num, month >>
       ELSE LET st1 == IF is_test_content(test_mode, "TITLE", 0, 0, 0)
                       THEN write_page(call_ensure_parity(Cur, TITLE_PAGE_NUM),
                                       "title", TITLE_PAGE_NUM)
                       ELSE Cur
            IN  /\ SetStream(st1)
                /\ last' = Step("title", TITLE_PAGE_NUM, st1.phys, << >>)
                /\ page_num' = FIRST_PAGE_NUM
                /\ full_page_num' = FIRST_PAGE_NUM
                /\ month' = 1
                /\ pc' = "summary"
                /\ UNCHANGED error
    /\ doc' = IF is_test_content(test_mode, "TITLE", 0, 0, 0)
              THEN [Labelled(doc, Section("title", 0)) EXCEPT
                       !.toc = IF toc_enabled
                               THEN toc_rows(test_mode, include_source)
                               ELSE {}]
              ELSE doc
    /\ UNCHANGED << config, preamble_written, block_h, cal, chunk_i, el_i,
                    extra_i, num_extra_pages, event_list_counter, n_skipped,
                    n_passed >>

\* page_num = generate_month_summary(month, page_num)
MonthSummary ==
    /\ pc = "summary"
    /\ LET r == generate_month_summary(test_mode, Cur, month, page_num)
           f == generate_month_summary(FALSE, Cur, month, full_page_num)
       IN  /\ SetStream(r.st)
           /\ page_num' = r.page_num
           /\ full_page_num' = f.page_num
           /\ n_skipped' = IF r.rendered THEN n_skipped ELSE n_skipped + 1
           /\ n_passed' = n_passed + (r.stamped - page_num)
           /\ last' = IF r.rendered
                      THEN Step("summary", r.stamped, r.st.phys, << >>)
                      ELSE Step("skip_summary", r.stamped, 0, << >>)
           /\ doc' = IF r.rendered
                     THEN Labelled(doc, Section("month", month))
                     ELSE doc
    /\ chunk_i' = 0
    /\ pc' = "daily"
    /\ UNCHANGED << config, setup_vars, cal,
                    month, el_i, extra_i, num_extra_pages,
                    event_list_counter >>

\* Loop control of the chunk loop nested in the month loop.
DailyNext ==
    LET i2 == chunk_i + DAYS_PER_PAGE(spread_mode) IN
    IF i2 < days_in_month(month)
    THEN /\ chunk_i' = i2
         /\ UNCHANGED << month, pc >>
    ELSE /\ chunk_i' = 0
         /\ IF month < 12
            THEN month' = month + 1 /\ pc' = "summary"
            ELSE month' = month /\ pc' = "eventlists"

\* "if not is_chunk_test: page_num += 1; continue"
SkipDailyPage ==
    /\ pc = "daily"
    /\ ~is_chunk_test(test_mode, month,
                      chunk(month, chunk_i, DAYS_PER_PAGE(spread_mode)))
    /\ page_num' = page_num + 1
    /\ full_page_num' = full_page_num + 1
    /\ n_skipped' = n_skipped + 1
    /\ last' = Step("skip_daily", page_num, 0, << >>)
    /\ DailyNext
    /\ UNCHANGED << config, setup_vars, cal,
                    el_i, extra_i, num_extra_pages,
                    event_list_counter, physical_page_count, out, ep_calls,
                    n_passed, doc >>

\* One rendered daily page.
RenderDailyPage ==
    /\ pc = "daily"
    /\ LET dpp == DAYS_PER_PAGE(spread_mode)
           ch  == chunk(month, chunk_i, dpp)
           st1 == call_ensure_parity(Cur, page_num)
           st2 == write_page(st1, "daily", page_num)
       IN  /\ is_chunk_test(test_mode, month, ch)
           /\ SetStream(st2)
           /\ last' = Step("daily", page_num, st2.phys,
                           daily_columns(dpp, align_mode, num_years, month,
                                         ch, page_num))
    /\ page_num' = page_num + 1
    /\ full_page_num' = full_page_num + 1
    /\ DailyNext
    /\ UNCHANGED << config, setup_vars, cal,
                    el_i, extra_i, num_extra_pages,
                    event_list_counter, n_skipped, n_passed, doc >>

\* --- EVENT LISTS APPENDIX ---: the alignment before the loop
EventListsStart ==
    /\ pc = "eventlists"
    /\ IF event_lists_enabled
       THEN LET a == start_on_odd(Cur, page_num)
                f == start_on_odd(Cur, full_page_num)
            IN  /\ SetStream(a.st)
                /\ page_num' = a.page_num
                /\ full_page_num' = f.page_num
                /\ n_passed' = n_passed + (a.page_num - page_num)
                /\ last' = Step("eventlists_start", a.page_num, 0, << >>)
                /\ pc' = "eventlist_page"
       ELSE /\ UNCHANGED << physical_page_count, out, ep_calls, page_num,
                            full_page_num, n_passed >>
            /\ last' = Step("no_eventlists", page_num, 0, << >>)
            /\ pc' = "extra_start"
    /\ el_i' = 0
    /\ UNCHANGED << config, setup_vars, cal,
                    month, chunk_i, extra_i, num_extra_pages,
                    event_list_counter, n_skipped, doc >>

\* One iteration of "for i in range(6)"
EventListPage ==
    /\ pc = "eventlist_page"
    /\ LET st1 == write_page(Cur, "eventlist", page_num)
       IN  /\ SetStream(st1)
           /\ last' = Step("eventlist", page_num, st1.phys, << >>)
    /\ doc' = Labelled(doc, Section("event_list", event_list_counter))
    /\ event_list_counter' = event_list_counter + 1
    /\ page_num' = page_num + 1
    /\ full_page_num' = full_page_num + 1
    /\ el_i' = el_i + 1
    /\ pc' = IF el_i + 1 < NUM_EVENT_LISTS THEN "eventlist_page"
             ELSE "extra_start"
    /\ UNCHANGED << config, setup_vars, cal,
                    month, chunk_i, extra_i, num_extra_pages,
                    n_skipped, n_passed >>

\* --- EXTRA PAGES ---: the alignment and num_extra_pages
ExtraPagesStart ==
    /\ pc = "extra_start"
    /\ LET a == start_on_odd(Cur, page_num)
           f == start_on_odd(Cur, full_page_num)
       IN  /\ SetStream(a.st)
           /\ page_num' = a.page_num
           /\ full_page_num' = f.page_num
           /\ n_passed' = n_passed + (a.page_num - page_num)
           /\ num_extra_pages' = num_extra_pages_for(a.page_num)
           /\ last' = Step("extra_start", a.page_num, 0, << >>)
    /\ extra_i' = 0
    /\ pc' = "extra_page"
    /\ UNCHANGED << config, setup_vars, cal,
                    month, chunk_i, el_i, event_list_counter,
                    n_skipped, doc >>

\* One iteration of "for i in range(num_extra_pages)"
ExtraPage ==
    /\ pc = "extra_page"
    /\ IF is_test_content(test_mode, "EXTRA_PAGES", 0, 0, extra_i)
       THEN LET st1 == call_ensure_parity(Cur, page_num)
                st2 == write_page(st1, "extra", page_num)
            IN  /\ SetStream(st2)
                /\ last' = Step("extra", page_num, st2.phys, << >>)
                /\ doc' = IF extra_i = 0
                          THEN Labelled(doc, Section("extra_pages", 0))
                          ELSE Written(doc, Section("extra_pages", 0))
                /\ UNCHANGED n_skipped
       ELSE /\ UNCHANGED << physical_page_count, out, ep_calls, doc >>
            /\ last' = Step("skip_extra", page_num, 0, << >>)
            /\ n_skipped' = n_skipped + 1
    /\ page_num' = page_num + 1
    /\ full_page_num' = full_page_num + 1
    /\ extra_i' = extra_i + 1
    /\ pc' = IF extra_i + 1 < num_extra_pages THEN "extra_page" ELSE "source"
    /\ UNCHANGED << config, setup_vars, cal,
                    month, chunk_i, el_i, num_extra_pages,
                    event_list_counter, n_passed >>

\* --- SOURCE CODE APPENDIX ---
SourceAppendix ==
    /\ pc = "source"
    /\ IF include_source /\ is_test_content(test_mode, "SOURCE", 0, 0, 0)
       THEN LET a == start_on_odd(Cur, page_num)
                f == start_on_odd(Cur, full_page_num)
            IN  /\ physical_page_count' = a.st.phys
                /\ ep_calls' = a.st.calls
                /\ out' = Append(a.st.out,
                                 Token("source", a.page_num, a.st.phys + 1))
                /\ page_num' = a.page_num
                /\ full_page_num' = f.page_num
                /\ n_passed' = n_passed + (a.page_num - page_num)
                /\ last' = Step("source", a.page_num, a.st.phys + 1, << >>)
                /\ doc' = Labelled(doc, Section("source", 0))
       ELSE /\ UNCHANGED << physical_page_count, out, ep_calls, page_num,
                            full_page_num, n_passed, doc >>
            /\ last' = Step("no_source", page_num, 0, << >>)
    /\ pc' = "done"
    /\ UNCHANGED << config, setup_vars, cal,
                    month, chunk_i, el_i, extra_i, num_extra_pages,
                    event_list_counter, n_skipped >>

Next ==
    \/ Setup
    \/ CoverPage
    \/ MonthSummary
    \/ SkipDailyPage
    \/ RenderDailyPage
    \/ EventListsStart
    \/ EventListPage
    \/ ExtraPagesStart
    \/ ExtraPage
    \/ SourceAppendix

Spec == Init /\ [][Next]_vars

\* Runs over argument values that include zero and negative counts
\* (argparse accepts any int for --years and --lines).
CfgNumYears == {-1, 0, 1}

CfgNumLines == {-1, 0, DEFAULT_NUM_WRITING_LINES}

InitCfg == InitRun(CfgNumYears, CfgNumLines, {FALSE})

SpecCfg == InitCfg /\ [][Next]_vars

(***************************************************************************)
(* Module-level functions: dates, rule strings                             *)
(***************************************************************************)
\* "return None"
None == -1

\* datetime.MINYEAR, datetime.MAXYEAR: the years datetime.date accepts
MINYEAR == 1

MAXYEAR == 9999

\* datetime.date(year, month, day) raises ValueError unless this holds.
date_valid(year, mon, day) ==
    /\ year \in MINYEAR..MAXYEAR
    /\ mon \in 1..12
    /\ day \in 1..monthrange_days(year, mon)

days_before_year(year) ==
    LET y == year - 1
    IN  y * 365 + (y \div 4) - (y \div 100) + (y \div 400)

RECURSIVE days_before_month(_, _)
days_before_month(year, mon) ==
    IF mon = 1 THEN 0
    ELSE days_before_month(year, mon - 1) + monthrange_days(year, mon - 1)

\* date.toordinal(): 1 is January 1 of year 1
toordinal(year, mon, day) ==
    days_before_year(year) + days_before_month(year, mon) + day

\* date.weekday(): 0 = Monday ... 6 = Sunday
weekday(year, mon, day) == (toordinal(year, mon, day) + 6) % 7

\* strftime("%a")
DAY_NAMES == << "Mon", "Tue", "Wed", "Thu", "Fri", "Sat", "Sun" >>

\* get_day_of_week without the try/except.
get_day_of_week_noexcept(year, mon, day) ==
    IF date_valid(year, mon, day)
    THEN [raised |-> "none",
          value  |-> DAY_NAMES[weekday(year, mon, day) + 1]]
    ELSE [raised |-> "ValueError", value |-> ""]

get_day_of_week(year, mon, day) ==
    IF date_valid(year, mon, day)
    THEN [raised |-> "none",
          value  |-> DAY_NAMES[weekday(year, mon, day) + 1]]
    ELSE [raised |-> "none", value |-> ""]

\* calculate_easter with the sign of k flipped.
calculate_easter_signk(year) ==
    LET a == year % 19
        b == year \div 100
        c == year % 100
        d == b \div 4
        e == b % 4
        f == (b + 8) \div 25
        g == (b - f + 1) \div 3
        h == (19 * a + b - d - g + 15) % 30
        i == c \div 4
        k == c % 4
        l == (32 + 2 * e + 2 * i - h + k) % 7
        m == (a + 11 * h + 22 * l) \div 451
    IN  [month |-> (h + l - 7 * m + 114) \div 31,
         day   |-> ((h + l - 7 * m + 114) % 31) + 1]

calculate_easter(year) ==
    LET a == year % 19
        b == year \div 100
        c == year % 100
        d == b \div 4
        e == b % 4
        f == (b + 8) \div 25
        g == (b - f + 1) \div 3
        h == (19 * a + b - d - g + 15) % 30
        i == c \div 4
        k == c % 4
        l == (32 + 2 * e + 2 * i - h - k) % 7
        m == (a + 11 * h + 22 * l) \div 451
    IN  [month |-> (h + l - 7 * m + 114) \div 31,
         day   |-> ((h + l - 7 * m + 114) % 31) + 1]

\* calendar.monthcalendar(year, month): the weeks of the month, Monday
\* first, 0 for the days that belong to another month.
monthcalendar(year, mon) ==
    LET first  == weekday(year, mon, 1)
        ndays  == monthrange_days(year, mon)
        nweeks == (first + ndays + 6) \div 7
    IN  [w \in 1..nweeks |->
            [j \in 1..7 |->
                LET d == (w - 1) * 7 + j - first
                IN  IF d \in 1..ndays THEN d ELSE 0]]

\* [week[weekday_idx] for week in cal if week[weekday_idx] != 0]
weekday_days(year, mon, weekday_idx) ==
    LET c    == monthcalendar(year, mon)
        col  == [w \in 1..Len(c) |-> c[w][weekday_idx + 1]]
    IN  SelectSeq(col, LAMBDA d : d # 0)

\* Python's days[i] for a list held as the sequence days[1..len].
py_index(days, i) == IF i >= 0 THEN days[i + 1] ELSE days[Len(days) + i + 1]

abs(n) == IF n < 0 THEN -n ELSE n

\* get_nth_weekday_of_month counting a negative n from the start too.
get_nth_weekday_of_month_fromstart(year, mon, weekday_idx, n) ==
    LET days == weekday_days(year, mon, weekday_idx)
    IN  IF n > 0
        THEN IF n <= Len(days) THEN py_index(days, n - 1) ELSE None
        ELSE IF abs(n) <= Len(days) THEN py_index(days, abs(n) - 1) ELSE None

get_nth_weekday_of_month(year, mon, weekday_idx, n) ==
    LET days == weekday_days(year, mon, weekday_idx)
    IN  IF n > 0
        THEN IF n <= Len(days) THEN py_index(days, n - 1) ELSE None
        ELSE IF abs(n) <= Len(days) THEN py_index(days, n) ELSE None

\* calculate_election_day taking the first Tuesday of November.
calculate_election_day_firsttuesday(year) ==
    LET first_tuesday == get_nth_weekday_of_month(year, 11, 1, 1)
    IN  [month |-> 11, day |-> first_tuesday]

calculate_election_day(year) ==
    LET first_monday == get_nth_weekday_of_month(year, 11, 0, 1)
    IN  [month |-> 11, day |-> first_monday + 1]

\* Strings are sequences of one-character strings.
UPPER == << "A", "B", "C", "D", "E", "F", "G", "H", "I", "J", "K", "L", "M",
          "N", "O", "P", "Q", "R", "S", "T", "U", "V", "W", "X", "Y", "Z" >>

LOWER == << "a", "b", "c", "d", "e", "f", "g", "h", "i", "j", "k", "l", "m",
          "n", "o", "p", "q", "r", "s", "t", "u", "v", "w", "x", "y", "z" >>

DIGITS == << "0", "1", "2", "3", "4", "5", "6", "7", "8", "9" >>

\* position of x in the sequence s, 0 when absent
index_of(x, s) ==
    IF \E i \in 1..Len(s) : s[i] = x
    THEN CHOOSE i \in 1..Len(s) : s[i] = x
    ELSE 0

is_alpha(c) == index_of(c, UPPER) # 0 \/ index_of(c, LOWER) # 0

to_lower(c) == IF index_of(c, UPPER) # 0 THEN LOWER[index_of(c, UPPER)] ELSE c

to_upper(c) == IF index_of(c, LOWER) # 0 THEN UPPER[index_of(c, LOWER)] ELSE c

\* str.lower()
str_lower(s) == [i \in 1..Len(s) |-> to_lower(s[i])]

\* str.title(): a letter is upper-cased after a non-letter, lower-cased
\* after a letter
str_title(s) ==
    [i \in 1..Len(s) |->
        IF i = 1 \/ ~is_alpha(s[i - 1]) THEN to_upper(s[i]) ELSE to_lower(s[i])]

\* s[:3]
first3(s) == SubSeq(s, 1, IF Len(s) < 3 THEN Len(s) ELSE 3)

is_space(c) == c \in {" ", "\t"}

\* str.split(): the maximal runs of non-whitespace
RECURSIVE split_from(_, _, _, _)
split_from(s, i, word, parts) ==
    LET closed == IF word = << >> THEN parts ELSE Append(parts, word)
    IN  IF i > Len(s) THEN closed
        ELSE IF is_space(s[i]) THEN split_from(s, i + 1, << >>, closed)
        ELSE split_from(s, i + 1, Append(word, s[i]), parts)

split(s) == split_from(s, 1, << >>, << >>)

\* int(c) for a one-character string: the digit's value, else ValueError
int_of_char(c) ==
    IF index_of(c, DIGITS) # 0
    THEN [raised |-> "none", value |-> index_of(c, DIGITS) - 1]
    ELSE [raised |-> "ValueError", value |-> 0]

\* calendar.month_abbr[1..12]
MONTH_ABBR == << << "J", "a", "n" >>,
             << "F", "e", "b" >>,
             << "M", "a", "r" >>,
             << "A", "p", "r" >>,
             << "M", "a", "y" >>,
             << "J", "u", "n" >>,
             << "J", "u", "l" >>,
             << "A", "u", "g" >>,
             << "S", "e", "p" >>,
             << "O", "c", "t" >>,
             << "N", "o", "v" >>,
             << "D", "e", "c" >> >>

\* the keys of day_map, in the order of their values 0..6
DAY_ABBR == << << "M", "o", "n" >>,
           << "T", "u", "e" >>,
           << "W", "e", "d" >>,
           << "T", "h", "u" >>,
           << "F", "r", "i" >>,
           << "S", "a", "t" >>,
           << "S", "u", "n" >> >>

\* month_map.get(key)
month_map_get(key) ==
    IF index_of(key, MONTH_ABBR) # 0 THEN index_of(key, MONTH_ABBR) ELSE None

\* day_map.get(key)
day_map_get(key) ==
    IF index_of(key, DAY_ABBR) # 0 THEN index_of(key, DAY_ABBR) - 1 ELSE None

STR_EASTER == << "e", "a", "s", "t", "e", "r" >>

STR_ELECTION == << "e", "l", "e", "c", "t", "i", "o", "n" >>

STR_LAST == << "l", "a", "s", "t" >>

Returned(mon, day) == [raised |-> "none", month |-> mon, day |-> day]

Raised(exc) == [raised |-> exc, month |-> None, day |-> None]

parse_rule(rule, year) ==
    LET parts == split(rule)
    IN  IF rule = STR_EASTER
        THEN Returned(calculate_easter(year).month, calculate_easter(year).day)
        ELSE IF rule = STR_ELECTION
        THEN Returned(calculate_election_day(year).month,
                      calculate_election_day(year).day)
        ELSE IF Len(parts) = 3
        THEN LET nth_str   == parts[1]
                 day_str   == parts[2]
                 month_str == parts[3]
                 mon     == month_map_get(str_title(first3(month_str)))
                 wd        == day_map_get(str_title(first3(day_str)))
                 is_last   == str_lower(nth_str) = STR_LAST
                 conv      == int_of_char(nth_str[1])
                 n         == IF is_last THEN -1 ELSE conv.value
             IN  IF mon = None THEN Returned(None, None)
                 ELSE IF wd = None THEN Returned(None, None)
                 ELSE IF ~is_last /\ conv.raised # "none"
                 THEN Raised(conv.raised)
                 ELSE Returned(mon,
                               get_nth_weekday_of_month(year, mon, wd, n))
        ELSE Returned(None, None)

(***************************************************************************)
(* get_special_events over the SPECIAL_DAYS table                          *)
(***************************************************************************)
SPECIAL_DAYS ==
    [annual |->
        << [name |-> "New Year's Day", month |-> 1, day |-> 1],
           [name |-> "MLK Day",
           rule |-> << "3", "r", "d", " ", "M", "o", "n", " ", "J", "a", "n" >>],
           [name |-> "Valentine's Day", month |-> 2, day |-> 14],
           [name |-> "President's Day",
           rule |-> << "3", "r", "d", " ", "M", "o", "n", " ", "F", "e", "b" >>],
           [name |-> "St. Patrick's Day", month |-> 3, day |-> 17],
           [name |-> "Easter",
           rule |-> << "e", "a", "s", "t", "e", "r" >>],
           [name |-> "Mother's Day",
           rule |-> << "2", "n", "d", " ", "S", "u", "n", " ", "M", "a", "y" >>],
           [name |-> "Memorial Day",
           rule |-> << "l", "a", "s", "t", " ", "M", "o", "n", " ", "M", "a", "y" >>],
           [name |-> "Father's Day",
           rule |-> << "3", "r", "d", " ", "S", "u", "n", " ", "J", "u", "n" >>],
           [name |-> "Juneteenth", month |-> 6, day |-> 19],
           [name |-> "Independence Day", month |-> 7, day |-> 4],
           [name |-> "Labor Day",
           rule |-> << "1", "s", "t", " ", "M", "o", "n", " ", "S", "e", "p" >>],
           [name |-> "Columbus Day",
           rule |-> << "2", "n", "d", " ", "M", "o", "n", " ", "O", "c", "t" >>],
           [name |-> "Halloween", month |-> 10, day |-> 31],
           [name |-> "Election Day",
           rule |-> << "e", "l", "e", "c", "t", "i", "o", "n" >>],
           [name |-> "Veterans Day", month |-> 11, day |-> 11],
           [name |-> "Thanksgiving",
           rule |-> << "4", "t", "h", " ", "T", "h", "u", " ", "N", "o", "v" >>],
           [name |-> "Christmas", month |-> 12, day |-> 25] >>,
     birthdays |->
        << [name |-> "Nathan",
           date |-> << "1", "9", "6", "8", "-", "1", "1", "-", "2", "9" >>],
           [name |-> "Dana",
           date |-> << "1", "9", "6", "8", "-", "0", "9", "-", "2", "6" >>],
           [name |-> "Benjamin",
           date |-> << "1", "9", "9", "5", "-", "0", "8", "-", "1", "8" >>],
           [name |-> "Thaddeus",
           date |-> << "1", "9", "9", "6", "-", "1", "1", "-", "3", "0" >>],
           [name |-> "Eli",
           date |-> << "2", "0", "0", "0", "-", "0", "3", "-", "3", "0" >>],
           [name |-> "Isaac",
           date |-> << "2", "0", "0", "3", "-", "0", "8", "-", "2", "8" >>],
           [name |-> "Lydia",
           date |-> << "2", "0", "0", "5", "-", "0", "1", "-", "1", "9" >>],
           [name |-> "Keren",
           date |-> << "2", "0", "0", "7", "-", "0", "9", "-", "1", "1" >>],
           [name |-> "Aaron",
           date |-> << "1", "9", "7", "1", "-", "0", "2", "-", "2", "8" >>],
           [name |-> "Esther",
           date |-> << "1", "9", "7", "3", "-", "0", "1", "-", "2", "4" >>],
           [name |-> "Rachel",
           date |-> << "1", "9", "7", "5", "-", "0", "8", "-", "1", "6" >>],
           [name |-> "Beth",
           date |-> << "1", "9", "7", "8", "-", "1", "0", "-", "0", "7" >>],
           [name |-> "Sarah",
           date |-> << "1", "9", "8", "4", "-", "0", "3", "-", "2", "6" >>],
           [name |-> "Bill",
           date |-> << "1", "9", "4", "3", "-", "0", "3", "-", "0", "9" >>],
           [name |-> "Pat",
           date |-> << "1", "9", "4", "5", "-", "0", "4", "-", "1", "5" >>],
           [name |-> "Keith",
           date |-> << "1", "9", "4", "9", "-", "1", "0", "-", "2", "5" >>],
           [name |-> "Judy",
           date |-> << "1", "9", "5", "0", "-", "1", "1", "-", "2", "6" >>],
           [name |-> "Amy",
           date |-> << "1", "9", "7", "1", "-", "0", "4", "-", "1", "9" >>],
           [name |-> "Monique",
           date |-> << "1", "9", "9", "6", "-", "0", "9", "-", "2", "8" >>],
           [name |-> "Luci & True",
           date |-> << "2", "0", "2", "3", "-", "0", "3", "-", "2", "1" >>],
           [name |-> "Tommy",
           date |-> << "2", "0", "2", "4", "-", "0", "7", "-", "2", "3" >>],
           [name |-> "Thaddeus II",
           date |-> << "2", "0", "2", "5", "-", "1", "0", "-", "1", "1" >>] >>,
     anniversaries |->
        << [name |-> "Nathan & Dana",
           date |-> << "1", "9", "9", "4", "-", "0", "6", "-", "3", "0" >>],
           [name |-> "Bill & Pat",
           date |-> << "1", "9", "6", "7", "-", "0", "7", "-", "0", "7" >>],
           [name |-> "Keith & Judy",
           date |-> << "1", "9", "6", "7", "-", "1", "1", "-", "1", "8" >>],
           [name |-> "Ben & Mo",
           date |-> << "2", "0", "1", "9", "-", "0", "8", "-", "0", "2" >>],
           [name |-> "Tad & Missa",
           date |-> << "2", "0", "2", "2", "-", "1", "2", "-", "2", "1" >>],
           [name |-> "Aub & Tom",
           date |-> << "2", "0", "2", "4", "-", "0", "8", "-", "1", "6" >>] >>,
     education |->
        << [name |-> "Westwood HS",
           date |-> << "1", "9", "8", "6", "-", "0", "6", "-", "0", "6" >>],
           [name |-> "UT Austin BS ECE",
           date |-> << "1", "9", "9", "3", "-", "0", "8", "-", "1", "6" >>],
           [name |-> "St. Edwards MS CIS",
           date |-> << "2", "0", "1", "4", "-", "1", "2", "-", "1", "3" >>],
           [name |-> "UT Dallas PhD TE",
           date |-> << "2", "0", "2", "6", "-", "0", "5", "-", "1", "4" >>] >>,
     other |->
        << [name |-> "Japan Fukuoka Mission",
           date |-> << "1", "9", "8", "8", "-", "0", "8", "-", "2", "4" >>],
           [name |-> "Texas Return",
           date |-> << "2", "0", "1", "1", "-", "1", "2", "-", "2", "0" >>],
           [name |-> "Wylie Move",
           date |-> << "2", "0", "1", "5", "-", "0", "6", "-", "1", "9" >>] >> ]

\* the keys of WHIMSY_STYLES
WHIMSY_STYLES ==
    { "New Year's Day", "MLK Day", "Valentine's Day", "President's Day",
      "St. Patrick's Day", "Easter", "Mother's Day", "Memorial Day",
      "Father's Day", "Juneteenth", "Independence Day", "Labor Day",
      "Columbus Day", "Halloween", "Election Day", "Veterans Day",
      "Thanksgiving", "Christmas", "Birthday", "Anniversary", "Education",
      "Other" }

\* The table with one more all-year day on December 25 and one more birthday
\* on August 18, neither with a style of its own.
SPECIAL_DAYS_MORE ==
    [SPECIAL_DAYS EXCEPT
        !.annual = Append(@, [name |-> "Family Dinner",
                              month |-> 12, day |-> 25]),
        !.birthdays = Append(@, [name |-> "Benjamin's Twin",
                                 date |-> << "1", "9", "9", "5", "-", "0", "8", "-", "1", "8" >>]) ]

\* str.split(sep) for a one-character sep: empty fields are kept
RECURSIVE split_on_from(_, _, _, _, _)
split_on_from(s, sep, i, field, fields) ==
    IF i > Len(s) THEN Append(fields, field)
    ELSE IF s[i] = sep
    THEN split_on_from(s, sep, i + 1, << >>, Append(fields, field))
    ELSE split_on_from(s, sep, i + 1, Append(field, s[i]), fields)

split_on(s, sep) == split_on_from(s, sep, 1, << >>, << >>)

\* int(s) for a string of decimal digits
RECURSIVE str_to_int(_)
str_to_int(s) ==
    IF Len(s) = 0 THEN 0
    ELSE 10 * str_to_int(SubSeq(s, 1, Len(s) - 1))
         + int_of_char(s[Len(s)]).value

\* One entry of the returned list: the name, the WHIMSY_STYLES key whose
\* colour and icon wrap it ("" for none), and the number in the "(Ny)"
\* suffix (None for no suffix).
Event(name, style, years) == [name |-> name, style |-> style, years |-> years]

\* "Check Annual"
annual_events(items, year, mon, day, use_whimsy) ==
    LET hit(item) ==
            IF "month" \in DOMAIN item /\ "day" \in DOMAIN item
            THEN item.month = mon /\ item.day = day
            ELSE IF "rule" \in DOMAIN item
            THEN LET r == parse_rule(item.rule, year)
                 IN  r.month = mon /\ r.day = day
            ELSE FALSE
        sel == SelectSeq(items, hit)
    IN  [i \in 1..Len(sel) |->
            Event(sel[i].name,
                  IF use_whimsy /\ sel[i].name \in WHIMSY_STYLES
                  THEN sel[i].name ELSE "",
                  None)]

\* a dated category admitting an event only from the year after its date
dated_events_strict(items, style_key, year, mon, day, use_whimsy) ==
    LET y_str(item) == split_on(item.date, "-")[1]
        m_str(item) == split_on(item.date, "-")[2]
        d_str(item) == split_on(item.date, "-")[3]
        hit(item) == /\ str_to_int(m_str(item)) = mon
                     /\ str_to_int(d_str(item)) = day
                     /\ year - str_to_int(y_str(item)) > 0
        sel == SelectSeq(items, hit)
    IN  [i \in 1..Len(sel) |->
            Event(sel[i].name,
                  IF use_whimsy /\ style_key \in WHIMSY_STYLES
                  THEN style_key ELSE "",
                  year - str_to_int(y_str(sel[i])))]

\* "Check Birthdays", "Check Anniversaries", "Check Education", "Check
\* Other": the same loop over one category
dated_events(items, style_key, year, mon, day, use_whimsy) ==
    LET y_str(item) == split_on(item.date, "-")[1]
        m_str(item) == split_on(item.date, "-")[2]
        d_str(item) == split_on(item.date, "-")[3]
        hit(item) == /\ str_to_int(m_str(item)) = mon
                     /\ str_to_int(d_str(item)) = day
                     /\ year - str_to_int(y_str(item)) >= 0
        sel == SelectSeq(items, hit)
    IN  [i \in 1..Len(sel) |->
            Event(sel[i].name,
                  IF use_whimsy /\ style_key \in WHIMSY_STYLES
                  THEN style_key ELSE "",
                  year - str_to_int(y_str(sel[i])))]

\* get_special_events checking the birthdays before the annual days.
get_special_events_birthdaysfirst(days, year, mon, day, use_whimsy) ==
    dated_events(days.birthdays, "Birthday", year, mon, day, use_whimsy)
    \o annual_events(days.annual, year, mon, day, use_whimsy)
    \o dated_events(days.anniversaries, "Anniversary", year, mon, day,
                    use_whimsy)
    \o dated_events(days.education, "Education", year, mon, day, use_whimsy)
    \o dated_events(days.other, "Other", year, mon, day, use_whimsy)

\* get_special_events, with the module's SPECIAL_DAYS as the argument days
get_special_events(days, year, mon, day, use_whimsy) ==
    annual_events(days.annual, year, mon, day, use_whimsy)
    \o dated_events(days.birthdays, "Birthday", year, mon, day, use_whimsy)
    \o dated_events(days.anniversaries, "Anniversary", year, mon, day,
                    use_whimsy)
    \o dated_events(days.education, "Education", year, mon, day, use_whimsy)
    \o dated_events(days.other, "Other", year, mon, day, use_whimsy)

(***************************************************************************)
(* run.py: the typer commands over the configuration files                 *)
(***************************************************************************)
\* A configuration file is absent, present but rejected by the YAML loader
\* or the pydantic model, or present and accepted.
FileStates == {"missing", "invalid", "valid"}

\* The exception a loader raises for a file, "none" when it returns.
load_file(file) ==
    IF file = "missing" THEN "FileNotFoundError"
    ELSE IF file = "invalid" THEN "ValidationError"
    ELSE "none"

load_user_data(file) == load_file(file)

load_printer_profiles(file) == load_file(file)

get_profile(profiles_file, has_profile) ==
    IF load_printer_profiles(profiles_file) # "none"
    THEN load_printer_profiles(profiles_file)
    ELSE IF ~has_profile THEN "ValueError"
    ELSE "none"

\* JournalGenerator.__init__
JournalGenerator(user_file, profiles_file, has_profile) ==
    IF load_user_data(user_file) # "none" THEN load_user_data(user_file)
    ELSE get_profile(profiles_file, has_profile)

\* generate: "except Exception: ... raise typer.Exit(code=1)"
generate(user_file, profiles_file, has_profile) ==
    LET exc == JournalGenerator(user_file, profiles_file, has_profile)
    IN  IF exc # "none"
        THEN [exit_code |-> 1, echo |-> "Error", exc |-> exc]
        ELSE [exit_code |-> 0, echo |-> "Generating journal", exc |-> exc]

\* verify_config: the except branch echoes and returns
verify_config(user_file, profiles_file) ==
    LET exc == IF load_user_data(user_file) # "none"
               THEN load_user_data(user_file)
               ELSE load_printer_profiles(profiles_file)
    IN  IF exc # "none"
        THEN [exit_code |-> 0, echo |-> "Configuration invalid", exc |-> exc]
        ELSE [exit_code |-> 0, echo |-> "Configuration valid", exc |-> exc]

(***************************************************************************)
(* Calls of the module-level functions and of the commands: one call per   *)
(* behaviour, with its arguments and what it returned kept in cal.         *)
(***************************************************************************)
MaxNth == 6

FirstEasterYear == 1800

LastEasterYear == 2299

\* the years of the journal
CalYears == {START_YEAR + k : k \in 0..MaxNumYears - 1}

\* years on both sides of the range datetime.date accepts
DowYears == CalYears \cup {-5, MINYEAR - 1, MINYEAR, MAXYEAR, MAXYEAR + 1}

MonthArgs == 0..13

DayArgs == 0..32

SP == << " " >>

NthWords == { << "1", "s", "t" >>,
              << "2", "n", "d" >>,
              << "3", "r", "d" >>,
              << "4", "t", "h" >>,
              << "5", "t", "h" >>,
              << "9", "t", "h" >>,
              << "0", "t", "h" >>,
              << "l", "a", "s", "t" >>,
              << "L", "A", "S", "T" >>,
              << "t", "h", "i", "r", "d" >>,
              << "x", "t", "h" >>,
              << "-", "1", "s", "t" >> }

DayWords == { << "M", "o", "n" >>,
              << "m", "o", "n" >>,
              << "m", "o", "n", "d", "a", "y" >>,
              << "T", "h", "u" >>,
              << "S", "u", "n" >>,
              << "F", "o", "o" >> }

MonthWords == { << "J", "a", "n" >>,
                << "j", "a", "n", "u", "a", "r", "y" >>,
                << "F", "e", "b" >>,
                << "M", "a", "y" >>,
                << "N", "O", "V" >>,
                << "F", "o", "o" >> }

\* rule strings: three words, and strings of another shape
Rules ==
    {n \o SP \o d \o SP \o m :
        n \in NthWords, d \in DayWords, m \in MonthWords}
    \cup
    { << "e", "a", "s", "t", "e", "r" >>,
      << "e", "l", "e", "c", "t", "i", "o", "n" >>,
      << " ", "e", "a", "s", "t", "e", "r" >>,
      << "E", "a", "s", "t", "e", "r" >>,
      << >>,
      << "3", "r", "d", " ", "M", "o", "n" >>,
      << "l", "a", "s", "t", " ", "M", "o", "n", " ", "M", "a", "y", " ",
         "2", "0", "2", "6" >>,
      << "1", "s", "t", " ", " ", "M", "o", "n", " ", " ", " ", "S", "e", "p" >>,
      << "\t", "l", "a", "s", "t", " ", "F", "r", "i", " ", "D", "e", "c" >> }

InitCalls ==
    /\ Init
    /\ ~test_mode
    /\ spread_mode = "2up"
    /\ align_mode = "left"
    /\ ~event_lists_enabled
    /\ ~include_source
    /\ num_years = 1

CallCalculateEaster ==
    /\ cal = NoCall
    /\ \E y \in FirstEasterYear..LastEasterYear :
          cal' = [fn |-> "calculate_easter", year |-> y,
                  result |-> calculate_easter(y)]
    /\ UNCHANGED run_vars

CallCalculateElectionDay ==
    /\ cal = NoCall
    /\ \E y \in FirstEasterYear..LastEasterYear :
          cal' = [fn |-> "calculate_election_day", year |-> y,
                  result |-> calculate_election_day(y)]
    /\ UNCHANGED run_vars

\* years before, between and after the dates of the table
EventYears == CalYears \cup {1990, 2024}

\* the tables get_special_events is run over, by name
DayTables == [SPECIAL_DAYS |-> SPECIAL_DAYS, more |-> SPECIAL_DAYS_MORE]

CallGetSpecialEvents ==
    /\ cal = NoCall
    /\ \E t \in DOMAIN DayTables, y \in EventYears, m \in 1..12,
          d \in 1..31, w \in BOOLEAN :
          cal' = [fn |-> "get_special_events", days |-> t, year |-> y,
                  month |-> m, day |-> d, use_whimsy |-> w,
                  result |-> get_special_events(DayTables[t], y, m, d, w)]
    /\ UNCHANGED run_vars

CallGetNthWeekdayOfMonth ==
    /\ cal = NoCall
    /\ \E y \in CalYears, m \in 1..12, w \in 0..6, n \in -MaxNth..MaxNth :
          cal' = [fn |-> "get_nth_weekday_of_month", year |-> y, month |-> m,
                  weekday_idx |-> w, n |-> n,
                  result |-> get_nth_weekday_of_month(y, m, w, n)]
    /\ UNCHANGED run_vars

CallGetDayOfWeek ==
    /\ cal = NoCall
    /\ \E y \in DowYears, m \in MonthArgs, d \in DayArgs :
          cal' = [fn |-> "get_day_of_week", year |-> y, month |-> m,
                  day |-> d, result |-> get_day_of_week(y, m, d)]
    /\ UNCHANGED run_vars

CallParseRule ==
    /\ cal = NoCall
    /\ \E r \in Rules, y \in CalYears :
          cal' = [fn |-> "parse_rule", rule |-> r, year |-> y,
                  result |-> parse_rule(r, y)]
    /\ UNCHANGED run_vars

CallGenerate ==
    /\ cal = NoCall
    /\ \E u \in FileStates, p \in FileStates, h \in BOOLEAN :
          cal' = [fn |-> "generate", user_file |-> u, profiles_file |-> p,
                  has_profile |-> h, result |-> generate(u, p, h)]
    /\ UNCHANGED run_vars

CallVerifyConfig ==
    /\ cal = NoCall
    /\ \E u \in FileStates, p \in FileStates :
          cal' = [fn |-> "verify_config", user_file |-> u,
                  profiles_file |-> p, result |-> verify_config(u, p)]
    /\ UNCHANGED run_vars

NextCalls ==
    \/ CallCalculateEaster
    \/ CallCalculateElectionDay
    \/ CallGetSpecialEvents
    \/ CallGetNthWeekdayOfMonth
    \/ CallGetDayOfWeek
    \/ CallParseRule
    \/ CallGenerate
    \/ CallVerifyConfig

SpecCalls == InitCalls /\ [][NextCalls]_vars

(***************************************************************************)
(* generate_tex with its options varied: the table of contents, whimsy and *)
(* kanji on or off, one or several years, one or several writing lines.    *)
(***************************************************************************)
OptNumYears == {1, MaxNumYears}

OptNumLines == {1, DEFAULT_NUM_WRITING_LINES}

InitOpts == InitRun(OptNumYears, OptNumLines, BOOLEAN)

SpecOpts == InitOpts /\ [][Next]_vars

(***************************************************************************)
(* Properties                                                              *)
(***************************************************************************)
IsContent(t) == t.kind \in ContentKinds

\* number of content pages written so far
ContentCount == Len(SelectSeq(out, IsContent))

SkipKinds == {"skip_summary", "skip_daily", "skip_extra"}

\* C1: every content page in the output (title, month summary, daily page,
\* event-list page, extra page) sits at a physical position of the same
\* parity as the logical page number stamped on it.
C1_ParitySync ==
    \A i \in DOMAIN out :
        IsContent(out[i]) => out[i].pos % 2 = out[i].page % 2

\* C1 witness: in test mode a daily page was written right after a filler
\* page, at a physical position different from its logical number.
C1_Witness ==
    /\ test_mode
    /\ last.kind = "daily"
    /\ Len(out) >= 2
    /\ out[Len(out) - 1].kind = "filler"
    /\ out[Len(out)].pos # out[Len(out)].page

\* C2: after every call ensure_parity(N) the next physical page has the
\* parity of N, and the call wrote 0 filler pages when the parities already
\* matched and exactly 1 otherwise.
C2_EnsureParityMinimal ==
    \A i \in DOMAIN ep_calls :
        LET c == ep_calls[i]
            matched == ((c.before + 1) % 2 = c.target % 2)
        IN  /\ (c.after + 1) % 2 = c.target % 2
            /\ c.after - c.before = (IF matched THEN 0 ELSE 1)
            /\ c.out_after - c.out_before = c.after - c.before

\* C2 witness: the call log holds a call that inserted a filler page and a
\* call that inserted none.
C2_Witness ==
    /\ \E i \in DOMAIN ep_calls : ep_calls[i].after = ep_calls[i].before + 1
    /\ \E i \in DOMAIN ep_calls : ep_calls[i].after = ep_calls[i].before

\* C3: of two consecutive ensure_parity calls (nothing written in between)
\* whose targets have the same parity, the second changes neither
\* physical_page_count nor the output.
C3_EnsureParityIdempotent ==
    \A i \in DOMAIN ep_calls :
        (i > 1 /\ ep_calls[i].target % 2 = ep_calls[i - 1].target % 2)
        => /\ ep_calls[i].out_before = ep_calls[i - 1].out_after
           /\ ep_calls[i].after = ep_calls[i - 1].after
           /\ ep_calls[i].out_after = ep_calls[i - 1].out_after

\* C3 witness: a call that inserted a filler page is followed by two more
\* calls with targets of the same parity.
C3_Witness ==
    /\ Len(ep_calls) >= 3
    /\ ep_calls[1].after = ep_calls[1].before + 1
    /\ ep_calls[2].target % 2 = ep_calls[1].target % 2
    /\ ep_calls[3].target % 2 = ep_calls[1].target % 2

\* C4 as stated: page_num - 1 is the number of content pages written plus
\* the number of pages skipped.
C4_Original == page_num - 1 = ContentCount + n_skipped

\* C4 amended: page_num - 1 is the number of content pages written plus the
\* pages skipped plus the logical numbers passed over by a forced odd start.
C4_LogicalCount == page_num - 1 = ContentCount + n_skipped + n_passed

\* C4 witness: a finished run that skipped pages and passed over numbers.
C4_Witness ==
    /\ pc = "done"
    /\ n_skipped > 0
    /\ n_passed > 0
    /\ ContentCount > 1

\* C5: in test mode every rendered page, and the start of each appendix
\* section, has the logical page number it has in the full run (after the
\* step both runs stand at the same next page number).
C5_TestModeSameNumbers ==
    (test_mode /\ last.kind \in (ContentKinds \cup {"eventlists_start",
                                                    "extra_start"}))
    => page_num = full_page_num

\* C6: a step that suppresses a page in test mode (month summary, daily
\* chunk, extra page) adds exactly 1 to page_num and changes neither
\* physical_page_count nor the output.
SuppressedSummary ==
    pc = "summary" /\ ~is_test_content(test_mode, "MONTH_SUMMARY", month, 0, 0)

SuppressedDaily ==
    /\ pc = "daily"
    /\ ~is_chunk_test(test_mode, month,
                      chunk(month, chunk_i, DAYS_PER_PAGE(spread_mode)))

SuppressedExtra ==
    pc = "extra_page" /\ ~is_test_content(test_mode, "EXTRA_PAGES", 0, 0, extra_i)

C6_SkipFrame ==
    [][(SuppressedSummary \/ SuppressedDaily \/ SuppressedExtra)
       => /\ page_num' = page_num + 1
          /\ physical_page_count' = physical_page_count
          /\ out' = out]_vars

\* C6 witness: a suppressed month summary met an even page_num (the case in
\* which a rendered summary would have been moved to the next odd page).
C6_Witness ==
    /\ last.kind = "skip_summary"
    /\ last.page % 2 = 0
    /\ page_num = last.page + 1
    /\ n_skipped > 1

\* C7: the title page is logical page 1 at physical position 1, no filler
\* page precedes it, and right after it physical_page_count = 1 and
\* page_num = 2.
C7_TitleFirst ==
    /\ (Len(out) > 0 => out[1] = Token("title", 1, 1))
    /\ (last.kind = "title" =>
            /\ out = << Token("title", 1, 1) >>
            /\ physical_page_count = 1
            /\ page_num = 2
            /\ Len(ep_calls) = 1
            /\ ep_calls[1].target = 1
            /\ ep_calls[1].after = ep_calls[1].before)

\* C7 witness: the cover page has just been written.
C7_Witness == last.kind = "title" /\ pc = "summary" /\ Len(out) = 1

\* C8: every rendered month-summary page has an odd logical page number and
\* an odd physical position.
C8_SummaryOnOdd ==
    \A i \in DOMAIN out :
        out[i].kind = "summary" => (out[i].page % 2 = 1 /\ out[i].pos % 2 = 1)

\* C8 witness: a summary was rendered after page_num had to be moved from an
\* even number to the next odd one.
C8_Witness ==
    /\ last.kind = "summary"
    /\ n_passed > 0
    /\ Len(ep_calls) >= 2
    /\ ep_calls[Len(ep_calls)].target = last.page

\* C9: on a two-day daily page column 1 is the inner column when the
\* physical page is even, column 0 when it is odd; the other is outer.
C9_InnerOuterColumns ==
    (last.kind = "daily" /\ DAYS_PER_PAGE(spread_mode) = 2)
    => \A c \in DOMAIN last.cols :
          last.cols[c].content = "day"
          => (last.cols[c].is_inner
                <=> (IF last.pos % 2 = 0 THEN last.cols[c].col_idx = 1
                                         ELSE last.cols[c].col_idx = 0))

\* C9 witness: a two-day page printed on an even physical page in test mode.
C9_Witness ==
    /\ last.kind = "daily"
    /\ test_mode
    /\ DAYS_PER_PAGE(spread_mode) = 2
    /\ last.pos % 2 = 0
    /\ last.pos # last.page
    /\ last.cols[1].content = "day" /\ ~last.cols[1].is_inner
    /\ last.cols[2].content = "day" /\ last.cols[2].is_inner

\* C10: the year/day labels of a daily block are right-aligned (anchor north
\* east) exactly when align_mode is "mirrored" and the page is odd, and
\* left-aligned (anchor north west) otherwise.
C10_LabelAlignment ==
    last.kind = "daily"
    => \A c \in DOMAIN last.cols :
         \A y \in DOMAIN last.cols[c].blocks :
           \A l \in DOMAIN last.cols[c].blocks[y].labels :
              LET lab == last.cols[c].blocks[y].labels[l]
                  right == (align_mode = "mirrored" /\ last.pos % 2 = 1
                            /\ last.page % 2 = 1)
              IN  IF right
                  THEN lab.align_txt = "right" /\ lab.anchor = "north east"
                  ELSE lab.align_txt = "left" /\ lab.anchor = "north west"

\* C10 witness: right-aligned labels on an odd page in mirrored mode.
C10_Witness ==
    /\ last.kind = "daily"
    /\ align_mode = "mirrored"
    /\ last.pos % 2 = 1
    /\ Len(last.cols[1].blocks) > 0
    /\ Len(last.cols[1].blocks[1].labels) = 2
    /\ last.cols[1].blocks[1].labels[1].align_txt = "right"

Odd(n) == n % 2 = 1

AppendixStarts == {"eventlists", "extra_start", "source"}

\* C11: every appendix section (event lists, extra pages, source listing)
\* starts on an odd logical page number and on an odd physical page: the
\* alignment block leaves both cursors on a right-hand page, the first page
\* of the section lands there, and at the point where a section starts the
\* block does so for a preceding section ending on either parity.
C11_AppendixOnOdd ==
    /\ last.kind \in {"eventlists_start", "extra_start"}
          => Odd(page_num) /\ Odd(physical_page_count + 1)
             /\ last.page = page_num
    /\ last.kind = "source" => Odd(last.page) /\ Odd(last.pos)
    /\ last.kind = "eventlist" /\ el_i = 1 => Odd(last.page) /\ Odd(last.pos)
    /\ last.kind = "extra" /\ extra_i = 1 => Odd(last.page) /\ Odd(last.pos)
    /\ pc \in AppendixStarts
          => \A pn \in {page_num, page_num + 1} :
                LET a == start_on_odd(Cur, pn)
                IN  /\ Odd(a.page_num)
                    /\ Odd(a.st.phys + 1)
                    /\ a.page_num \in {pn, pn + 1}

\* A source listing reached through event lists and extra pages whose
\* alignment had to insert a filler page.
C11_Witness ==
    /\ last.kind = "source"
    /\ event_lists_enabled
    /\ Odd(last.page) /\ Odd(last.pos)
    /\ \E i \in 1..Len(out) - 1 :
          out[i].kind = "filler" /\ out[i + 1].kind = "eventlist"

\* C12: the number of extra pages leaves the following section aligned:
\* after the extra pages page_num is odd, and in a full run the source
\* listing follows the last extra page directly, with no filler page.
C12_ExtraPagesAlign ==
    /\ pc = "source" => Odd(page_num) /\ extra_i = num_extra_pages
    /\ last.kind = "source" /\ ~test_mode
          => /\ Len(out) >= 2
             /\ out[Len(out) - 1].kind = "extra"
             /\ last.page = out[Len(out) - 1].page + 1
             /\ last.pos = out[Len(out) - 1].pos + 1

C12_Witness ==
    /\ last.kind = "source"
    /\ ~test_mode
    /\ extra_i = num_extra_pages
    /\ out[Len(out) - 1].kind = "extra"

\* C13: the page cursor only moves forward.  A run starts with
\* physical_page_count = 0 and the title as logical page 1; no step lowers
\* physical_page_count or page_num; every page written takes the next
\* physical position, and a content page leaves page_num one past its own
\* number.
C13_CursorForward ==
    /\ (pc = "setup" => physical_page_count = 0 /\ page_num = TITLE_PAGE_NUM)
    /\ [][ /\ physical_page_count' >= physical_page_count
           /\ page_num' >= page_num
           /\ Len(out') >= Len(out)
           /\ \A i \in 1..Len(out') :
                 /\ i <= Len(out) => out'[i] = out[i]
                 /\ i > Len(out) /\ out'[i].kind \in ContentKinds \cup {"filler"}
                       => out'[i].pos = physical_page_count + (i - Len(out))
                          /\ out'[i].pos <= physical_page_count'
           /\ (Len(out') > Len(out) /\ IsContent(out'[Len(out')])
                 => /\ out'[Len(out')].pos = physical_page_count'
                    /\ page_num' = out'[Len(out')].page + 1
                    /\ page_num' > page_num)
         ]_vars

\* A test-mode run at its end: pages were skipped, so the logical cursor is
\* ahead of the physical one, and both have moved.
C13_Witness ==
    /\ pc = "done"
    /\ test_mode
    /\ physical_page_count > 1
    /\ page_num > physical_page_count + 1
    /\ Len(out) = physical_page_count + (IF last.kind = "source" THEN 1 ELSE 0)

IsPositive(q) == q[1] * q[2] > 0

BadDimension == num_years <= 0 \/ num_writing_lines <= 0

\* C16: a configuration with a zero or negative derived dimension
\* (num_years <= 0 or num_writing_lines <= 0) is rejected with an error
\* before any output: once set-up is over the run has ended in an error,
\* the preamble was not written, no page was written, and no block height
\* of zero or negative size was computed.
C16_RejectBadConfig ==
    BadDimension /\ pc # "setup"
        => /\ error # "none"
           /\ ~preamble_written
           /\ out = << >>
           /\ physical_page_count = 0
           /\ (block_h # << 0, 1 >> => IsPositive(block_h))

\* A well-formed triple: an ordinal 1..5 written digit first, or "last";
\* a weekday name; a month name.
WellFormedTriple(rule) ==
    LET parts == split(rule)
    IN  /\ Len(parts) = 3
        /\ \/ str_lower(parts[1]) = STR_LAST
           \/ /\ Len(parts[1]) = 3
              /\ parts[1][1] \in {"1", "2", "3", "4", "5"}
              /\ SubSeq(str_lower(parts[1]), 2, 3)
                    \in { << "s", "t" >>, << "n", "d" >>,
                          << "r", "d" >>, << "t", "h" >> }
        /\ day_map_get(str_title(first3(parts[2]))) # None
        /\ month_map_get(str_title(first3(parts[3]))) # None

Malformed(rule) ==
    /\ rule # STR_EASTER
    /\ rule # STR_ELECTION
    /\ ~WellFormedTriple(rule)

\* C15: parse_rule never raises on a malformed rule: for every rule that is
\* neither "easter", "election" nor a well-formed triple it returns
\* (None, None) or a pair whose day is None.
C15_ParseRuleNeverRaises ==
    cal.fn = "parse_rule" /\ Malformed(cal.rule)
        => /\ cal.result.raised = "none"
           /\ cal.result.day = None

\* C17: every command exits non-zero when a configuration file is missing
\* or invalid (for generate, also when the profile is not in the file) and
\* zero on success; for generate and for verify-config.
C17_ExitStatus ==
    /\ cal.fn = "generate"
          => (cal.result.exit_code = 0
                <=> /\ cal.user_file = "valid"
                    /\ cal.profiles_file = "valid"
                    /\ cal.has_profile)
    /\ cal.fn = "verify_config"
          => (cal.result.exit_code = 0
                <=> /\ cal.user_file = "valid"
                    /\ cal.profiles_file = "valid")

\* the Gregorian calendar, written out
GregorianLeap(y) == (y % 4 = 0 /\ y % 100 # 0) \/ y % 400 = 0

GregorianDays(y, m) ==
    IF m \in {4, 6, 9, 11} THEN 30
    ELSE IF m = 2 THEN (IF GregorianLeap(y) THEN 29 ELSE 28)
    ELSE 31

ValidTriple(y, m, d) ==
    /\ y \in 1..9999
    /\ m \in 1..12
    /\ d \in 1..GregorianDays(y, m)

Occurrences(y, m, w) ==
    {d \in 1..GregorianDays(y, m) : weekday(y, m, d) = w}

\* C19: get_nth_weekday_of_month returns, for n > 0, the n-th occurrence of
\* the weekday counted from the start of the month, for n < 0 the |n|-th
\* counted from the end, and None when |n| exceeds the number of
\* occurrences; (2026, 1, Mon, 3) = 19 and (2026, 5, Mon, -1) = 25.
C19_NthWeekday ==
    cal.fn = "get_nth_weekday_of_month" /\ cal.n # 0
        => LET occ == Occurrences(cal.year, cal.month, cal.weekday_idx)
               k   == IF cal.n > 0 THEN cal.n ELSE -cal.n
               r   == cal.result
           IN  /\ k > Cardinality(occ) <=> r = None
               /\ k <= Cardinality(occ)
                     => /\ r \in occ
                        /\ cal.n > 0
                              => Cardinality({d \in occ : d < r}) = k - 1
                        /\ cal.n < 0
                              => Cardinality({d \in occ : d > r}) = k - 1
               /\ << cal.year, cal.month, cal.weekday_idx, cal.n >>
                     = << 2026, 1, 0, 3 >> => r = 19
               /\ << cal.year, cal.month, cal.weekday_idx, cal.n >>
                     = << 2026, 5, 0, -1 >> => r = 25

C19_Witness ==
    /\ cal.fn = "get_nth_weekday_of_month"
    /\ << cal.year, cal.month, cal.weekday_idx, cal.n >> = << 2026, 5, 0, -1 >>
    /\ cal.result = 25

\* The Gregorian Easter computus in Oudin's form, an independent statement
\* of the date the anonymous Gregorian algorithm computes.
EasterReference(y) ==
    LET g  == y % 19
        c  == y \div 100
        h  == (c - (c \div 4) - ((8 * c + 13) \div 25) + 19 * g + 15) % 30
        i  == h - (h \div 28)
                    * (1 - (h \div 28) * (29 \div (h + 1))
                                       * ((21 - g) \div 11))
        j  == (y + (y \div 4) + i + 2 - c + (c \div 4)) % 7
        p  == i - j
        mo == 3 + ((p + 40) \div 44)
    IN  [month |-> mo, day |-> p + 28 - 31 * (mo \div 4)]

\* C20: calculate_easter gives, for every year of the range, the date of
\* the Gregorian computus, always a Sunday between March 22 and April 25;
\* 2024 gives (3, 31) and 2025 gives (4, 20).
C20_Easter ==
    cal.fn = "calculate_easter"
        => LET r == cal.result
           IN  /\ r = EasterReference(cal.year)
               /\ r.month \in {3, 4}
               /\ r.month = 3 => r.day \in 22..31
               /\ r.month = 4 => r.day \in 1..25
               /\ weekday(cal.year, r.month, r.day) = 6
               /\ cal.year = 2024 => r = [month |-> 3, day |-> 31]
               /\ cal.year = 2025 => r = [month |-> 4, day |-> 20]

C20_Witness ==
    /\ cal.fn = "calculate_easter"
    /\ cal.year = 2025
    /\ cal.result = [month |-> 4, day |-> 20]

\* C21: calculate_election_day returns (11, d) with d the first Monday of
\* November plus 1: d is a Tuesday, 2 <= d <= 8, the day before it is the
\* only Monday among November 1..7; 2024 gives (11, 5).
C21_ElectionDay ==
    cal.fn = "calculate_election_day"
        => LET r == cal.result
           IN  /\ r.month = 11
               /\ r.day \in 2..8
               /\ weekday(cal.year, 11, r.day) = 1
               /\ {d \in 1..7 : weekday(cal.year, 11, d) = 0} = {r.day - 1}
               /\ cal.year = 2024 => r = [month |-> 11, day |-> 5]

\* A year whose November starts on a Tuesday: election day is the 8th.
C21_Witness ==
    /\ cal.fn = "calculate_election_day"
    /\ weekday(cal.year, 11, 1) = 1
    /\ cal.result = [month |-> 11, day |-> 8]

DatedCategories == {"birthdays", "anniversaries", "education", "other"}

\* the digits of a date string "YYYY-MM-DD", read by position
DateYear(date) ==
    1000 * (index_of(date[1], DIGITS) - 1) + 100 * (index_of(date[2], DIGITS) - 1)
    + 10 * (index_of(date[3], DIGITS) - 1) + (index_of(date[4], DIGITS) - 1)

DateMonth(date) ==
    10 * (index_of(date[6], DIGITS) - 1) + (index_of(date[7], DIGITS) - 1)

DateDay(date) ==
    10 * (index_of(date[9], DIGITS) - 1) + (index_of(date[10], DIGITS) - 1)

\* the entries of a returned list that carry the name
EntriesNamed(result, name) ==
    {i \in 1..Len(result) : result[i].name = name}

\* C22: get_special_events includes a dated event (birthday, anniversary,
\* education, other) exactly when the event's month and day are the day
\* asked for and year - event_year >= 0, once, labelled with the elapsed
\* years; the birthday dated 1995-08-18 appears with 31 years for
\* (2026, 8, 18) and not at all for (1990, 8, 18).
C22_DatedEvents ==
    cal.fn = "get_special_events"
        => /\ \A c \in DatedCategories :
                \A k \in 1..Len(DayTables[cal.days][c]) :
                    LET item    == DayTables[cal.days][c][k]
                        elapsed == cal.year - DateYear(item.date)
                        due     == /\ DateMonth(item.date) = cal.month
                                   /\ DateDay(item.date) = cal.day
                                   /\ elapsed >= 0
                        found   == EntriesNamed(cal.result, item.name)
                    IN  /\ due => /\ Cardinality(found) = 1
                                  /\ \A i \in found :
                                        cal.result[i].years = elapsed
                        /\ ~due => found = {}
           /\ << cal.year, cal.month, cal.day >> = << 2026, 8, 18 >>
                 => \E i \in 1..Len(cal.result) :
                       /\ cal.result[i].name = "Benjamin"
                       /\ cal.result[i].years = 31
           /\ << cal.year, cal.month, cal.day >> = << 1990, 8, 18 >>
                 => EntriesNamed(cal.result, "Benjamin") = {}

\* An event on the day of its own date: present, with 0 years.
C22_Witness ==
    /\ cal.fn = "get_special_events"
    /\ << cal.year, cal.month, cal.day >> = << 2026, 5, 14 >>
    /\ \E i \in 1..Len(cal.result) :
          /\ cal.result[i].name = "UT Dallas PhD TE"
          /\ cal.result[i].years = 0

CategoryOrder ==
    << "annual", "birthdays", "anniversaries", "education", "other" >>

\* where a name stands in the table: << place of its category, place in
\* the category >>
PlaceOf(days, name) ==
    CHOOSE pl \in {<< c, k >> : c \in 1..Len(CategoryOrder), k \in 1..30} :
        /\ pl[2] <= Len(days[CategoryOrder[pl[1]]])
        /\ days[CategoryOrder[pl[1]]][pl[2]].name = name

Before(p, q) == p[1] < q[1] \/ (p[1] = q[1] /\ p[2] < q[2])

Names(result) == [i \in 1..Len(result) |-> result[i].name]

\* C23: the list returned by get_special_events is ordered by category
\* (annual, birthdays, anniversaries, then education and other) and by the
\* order of the table within a category, for every (year, month, day), and
\* the names come in the same order with and without whimsy.
C23_EventOrder ==
    cal.fn = "get_special_events"
        => /\ \A i \in 1..Len(cal.result) - 1 :
                Before(PlaceOf(DayTables[cal.days], cal.result[i].name),
                       PlaceOf(DayTables[cal.days], cal.result[i + 1].name))
           /\ Names(cal.result)
                 = Names(get_special_events(DayTables[cal.days], cal.year,
                                            cal.month, cal.day,
                                            ~cal.use_whimsy))
           /\ cal.days = "SPECIAL_DAYS"
              /\ << cal.year, cal.month, cal.day >> = << 2026, 8, 16 >>
                 => Names(cal.result)
                       = << "Rachel", "Aub & Tom", "UT Austin BS ECE" >>

\* Thanksgiving 2026 falls on a birthday, and two birthdays share a day.
C23_Witness ==
    /\ cal.fn = "get_special_events"
    /\ cal.use_whimsy
    /\ \/ Names(cal.result) = << "Thanksgiving", "Judy" >>
       \/ Names(cal.result) = << "Benjamin", "Benjamin's Twin" >>

\* C24: in every column of a daily page that holds a day, each tracked year
\* has exactly one block, of height BLOCK_H and with its bottom divider; the
\* Feb 29 block of a non-leap year has no year/day label, no event text, no
\* guide circle, no prompt and no guide line, and every other block has them;
\* so the column has NUM_YEARS blocks of equal height.
C24_BlocksAlwaysDrawn ==
    last.kind = "daily"
        => \A c \in 1..Len(last.cols) :
              last.cols[c].content = "day"
                 => LET col == last.cols[c]
                    IN  /\ Len(col.blocks) = num_years
                        /\ \A y \in 1..Len(col.blocks) :
                              LET b     == col.blocks[y]
                                  empty == /\ col.month = 2 /\ col.day = 29
                                           /\ ~GregorianLeap(b.year)
                              IN  /\ b.year = START_YEAR + y - 1
                                  /\ b.h = << USABLE_H, num_years >>
                                  /\ b.bottom_divider
                                  /\ empty
                                       => /\ b.labels = << >>
                                          /\ b.events_for = << >>
                                          /\ b.circles = 0
                                          /\ ~b.p_prompt
                                          /\ b.guide_lines = 0
                                  /\ ~empty
                                       => /\ Len(b.labels) = 2
                                          /\ b.events_for
                                               = << b.year, col.month, col.day >>
                                          /\ b.circles = 2
                                          /\ b.p_prompt
                                          /\ b.guide_lines
                                               = num_writing_lines - 1

\* The Feb 29 page of a three-year journal: 2026 and 2027 empty, 2028 drawn.
C24_Witness ==
    /\ last.kind = "daily"
    /\ last.cols[1].month = 2
    /\ last.cols[1].day = 29
    /\ Len(last.cols[1].blocks) = 3
    /\ last.cols[1].blocks[1].labels = << >>
    /\ last.cols[1].blocks[2].bottom_divider
    /\ Len(last.cols[1].blocks[3].labels) = 2

ExtraTokens == SelectSeq(out, LAMBDA t : t.kind = "extra")

ExtraPagesRendered == {ExtraTokens[i].page : i \in 1..Len(ExtraTokens)}

\* C25: in test mode the extra-pages section renders its first two pages
\* (indices 0 and 1) and also its last page: once the section is over, the
\* pages written hold the section's first, second and last page numbers.
C25_TestExtraPages ==
    test_mode /\ pc \in {"source", "done"}
        => LET first == page_num - num_extra_pages
           IN  {first, first + 1, page_num - 1} \subseteq ExtraPagesRendered

FillerTokens == SelectSeq(out, LAMBDA t : t.kind = "filler")

PagedTokens == SelectSeq(out, LAMBDA t : t.kind \in ContentKinds \cup {"source"})

\* C26: in a full run the physical and the logical numbering coincide:
\* physical_page_count + 1 = page_num after every step from the title on and
\* there are as many filler pages as numbers passed over by a forced odd
\* start; in the finished document every content page (and the source
\* listing) stands at the physical position equal to its page number, and
\* the filler pages stand at exactly the numbers that no page carries.
C26_FullRunCoincide ==
    ~test_mode /\ pc \notin {"setup", "title"}
        => /\ physical_page_count + 1 = page_num
           /\ pc = "done" =>
                 LET paged   == PagedTokens
                     fillers == FillerTokens
                 IN  /\ \A i \in 1..Len(paged) : paged[i].pos = paged[i].page
                     /\ Len(fillers) = n_passed
                     /\ {fillers[i].pos : i \in 1..Len(fillers)}
                           = (1..physical_page_count)
                                \ {paged[i].page : i \in 1..Len(paged)}

\* A full 4up run at its end, with filler pages behind it.
C26_Witness ==
    /\ ~test_mode
    /\ pc = "done"
    /\ spread_mode = "4up"
    /\ n_passed > 0
    /\ Len(FillerTokens) = n_passed
    /\ physical_page_count + 1 = page_num

\* C27: the number of extra pages is always MIN_EXTRA_PAGES: the section
\* starts on an odd page, page_num + MIN_EXTRA_PAGES is odd there, and the
\* section has MIN_EXTRA_PAGES iterations, in every mode and option
\* combination.
C27_AlwaysTenExtraPages ==
    /\ last.kind = "extra_start"
          => Odd(page_num) /\ Odd(page_num + MIN_EXTRA_PAGES)
    /\ pc \in {"extra_page", "source", "done"}
          => num_extra_pages = MIN_EXTRA_PAGES
    /\ pc \in {"source", "done"} => extra_i = MIN_EXTRA_PAGES

C27_Witness ==
    /\ pc = "source"
    /\ last.kind \in {"extra", "skip_extra"}
    /\ num_extra_pages = MIN_EXTRA_PAGES
    /\ extra_i = MIN_EXTRA_PAGES

CeilDiv(a, b) == (a + b - 1) \div b

\* One step of the daily loop: the page at index k of the month.
DailyStep ==
    LET dpp   == DAYS_PER_PAGE(spread_mode)
        days  == days_in_month(month)
        pages == CeilDiv(days, dpp)
        k     == chunk_i \div dpp
        cols  == last'.cols
    IN  /\ chunk_i % dpp = 0
        /\ k < pages
        /\ page_num' = page_num + 1
        /\ last'.kind \in {"daily", "skip_daily"}
        /\ last'.page = page_num
        /\ IF k + 1 < pages
           THEN pc' = "daily" /\ month' = month /\ chunk_i' = chunk_i + dpp
           ELSE pc' \in {"summary", "eventlists"} /\ chunk_i' = 0
        /\ last'.kind = "daily" =>
              /\ Len(cols) = dpp
              /\ cols[1].content = "day"
              /\ \A c \in 1..dpp :
                    cols[c].content = "day"
                       => /\ cols[c].month = month
                          /\ cols[c].day = chunk_i + c
                          /\ cols[c].day <= days
              /\ dpp = 2 =>
                    /\ cols[2].content \in {"day", "blank"}
                    /\ cols[2].content = "blank"
                          <=> (days % 2 = 1 /\ k + 1 = pages)
                    /\ cols[2].content = "blank" => cols[1].day = days

\* C29: a daily page never carries days of two months: the daily loop of a
\* month starts at chunk index 0, every iteration takes the next logical page
\* number and the next DAYS_PER_PAGE days of that month only, and the loop
\* leaves the month after exactly ceil(days_in_month / DAYS_PER_PAGE) pages;
\* in 4up mode the second column is blank exactly on the last page of a month
\* with an odd number of days, whose first column then holds the last day.
C29_MonthPages ==
    [][/\ pc \in {"summary", "title"} => chunk_i = 0
       /\ pc = "daily" => DailyStep]_vars

\* The last page of a 31-day month in 4up mode: day 31 and a blank column.
C29_Witness ==
    /\ spread_mode = "4up"
    /\ last.kind = "daily"
    /\ last.cols[1].content = "day"
    /\ last.cols[1].day = days_in_month(last.cols[1].month)
    /\ last.cols[2].content = "blank"
    /\ chunk_i = 0

\* C30: with the table of contents enabled, a row reads "(Skipped)" exactly
\* when no page of its section is in the finished document, and is a page
\* reference exactly when the section's \label has been written; for the
\* title, every month, the extra pages and the source listing.
C30_TocMatchesDocument ==
    toc_enabled /\ pc = "done"
        => \A row \in doc.toc :
              /\ row[2] = "skipped" <=> row[1] \notin doc.sections
              /\ row[2] = "pageref" <=> row[1] \in doc.labels

\* START_YEAR ranges over FirstStartYear..LastStartYear
FirstStartYear == 1990

LastStartYear == 2110

StartYears == FirstStartYear..LastStartYear

\* The pages of the finished document for each combination of test_mode,
\* spread_mode, event_lists_enabled and include_source, as triples
\* << kind, logical number, physical position >>, taken from the .tex files
\* the program writes with its default options.  Filler pages and event-list
\* pages carry no \setcounter and are entered with logical number 0.
PageSequence(tm, sp, ev, src) ==
    CASE tm = FALSE /\ sp = "2up" /\ ev = FALSE /\ src = FALSE ->
        {<< "title", 1, 1 >>, << "filler", 0, 2 >>,
            << "summary", 3, 3 >>, << "summary", 35, 35 >>,
            << "summary", 65, 65 >>, << "summary", 97, 97 >>,
            << "filler", 0, 128 >>, << "summary", 129, 129 >>,
            << "summary", 161, 161 >>, << "filler", 0, 192 >>,
            << "summary", 193, 193 >>, << "summary", 225, 225 >>,
            << "summary", 257, 257 >>, << "filler", 0, 288 >>,
            << "summary", 289, 289 >>, << "summary", 321, 321 >>,
            << "filler", 0, 352 >>, << "summary", 353, 353 >>}
        \cup {<< "daily", p, p >> : p \in 4..34}
        \cup {<< "daily", p, p >> : p \in 36..64}
        \cup {<< "daily", p, p >> : p \in 66..96}
        \cup {<< "daily", p, p >> : p \in 98..127}
        \cup {<< "daily", p, p >> : p \in 130..160}
        \cup {<< "daily", p, p >> : p \in 162..191}
        \cup {<< "daily", p, p >> : p \in 194..224}
        \cup {<< "daily", p, p >> : p \in 226..256}
        \cup {<< "daily", p, p >> : p \in 258..287}
        \cup {<< "daily", p, p >> : p \in 290..320}
        \cup {<< "daily", p, p >> : p \in 322..351}
        \cup {<< "daily", p, p >> : p \in 354..384}
        \cup {<< "extra", p, p >> : p \in 385..394}
      [] tm = FALSE /\ sp = "2up" /\ ev = FALSE /\ src = TRUE ->
        {<< "title", 1, 1 >>, << "filler", 0, 2 >>,
            << "summary", 3, 3 >>, << "summary", 35, 35 >>,
            << "summary", 65, 65 >>, << "summary", 97, 97 >>,
            << "filler", 0, 128 >>, << "summary", 129, 129 >>,
            << "summary", 161, 161 >>, << "filler", 0, 192 >>,
            << "summary", 193, 193 >>, << "summary", 225, 225 >>,
            << "summary", 257, 257 >>, << "filler", 0, 288 >>,
            << "summary", 289, 289 >>, << "summary", 321, 321 >>,
            << "filler", 0, 352 >>, << "summary", 353, 353 >>,
            << "source", 395, 395 >>}
        \cup {<< "daily", p, p >> : p \in 4..34}
        \cup {<< "daily", p, p >> : p \in 36..64}
        \cup {<< "daily", p, p >> : p \in 66..96}
        \cup {<< "daily", p, p >> : p \in 98..127}
        \cup {<< "daily", p, p >> : p \in 130..160}
        \cup {<< "daily", p, p >> : p \in 162..191}
        \cup {<< "daily", p, p >> : p \in 194..224}
        \cup {<< "daily", p, p >> : p \in 226..256}
        \cup {<< "daily", p, p >> : p \in 258..287}
        \cup {<< "daily", p, p >> : p \in 290..320}
        \cup {<< "daily", p, p >> : p \in 322..351}
        \cup {<< "daily", p, p >> : p \in 354..384}
        \cup {<< "extra", p, p >> : p \in 385..394}
      [] tm = FALSE /\ sp = "2up" /\ ev = TRUE /\ src = FALSE ->
        {<< "title", 1, 1 >>, << "filler", 0, 2 >>,
            << "summary", 3, 3 >>, << "summary", 35, 35 >>,
            << "summary", 65, 65 >>, << "summary", 97, 97 >>,
            << "filler", 0, 128 >>, << "summary", 129, 129 >>,
            << "summary", 161, 161 >>, << "filler", 0, 192 >>,
            << "summary", 193, 193 >>, << "summary", 225, 225 >>,
            << "summary", 257, 257 >>, << "filler", 0, 288 >>,
            << "summary", 289, 289 >>, << "summary", 321, 321 >>,
            << "filler", 0, 352 >>, << "summary", 353, 353 >>,
            << "eventlist", 0, 385 >>, << "eventlist", 0, 386 >>,
            << "eventlist", 0, 387 >>, << "eventlist", 0, 388 >>,
            << "eventlist", 0, 389 >>, << "eventlist", 0, 390 >>}
        \cup {<< "daily", p, p >> : p \in 4..34}
        \cup {<< "daily", p, p >> : p \in 36..64}
        \cup {<< "daily", p, p >> : p \in 66..96}
        \cup {<< "daily", p, p >> : p \in 98..127}
        \cup {<< "daily", p, p >> : p \in 130..160}
        \cup {<< "daily", p, p >> : p \in 162..191}
        \cup {<< "daily", p, p >> : p \in 194..224}
        \cup {<< "daily", p, p >> : p \in 226..256}
        \cup {<< "daily", p, p >> : p \in 258..287}
        \cup {<< "daily", p, p >> : p \in 290..320}
        \cup {<< "daily", p, p >> : p \in 322..351}
        \cup {<< "daily", p, p >> : p \in 354..384}
        \cup {<< "extra", p, p >> : p \in 391..400}
      [] tm = FALSE /\ sp = "2up" /\ ev = TRUE /\ src = TRUE ->
        {<< "title", 1, 1 >>, << "filler", 0, 2 >>,
            << "summary", 3, 3 >>, << "summary", 35, 35 >>,
            << "summary", 65, 65 >>, << "summary", 97, 97 >>,
            << "filler", 0, 128 >>, << "summary", 129, 129 >>,
            << "summary", 161, 161 >>, << "filler", 0, 192 >>,
            << "summary", 193, 193 >>, << "summary", 225, 225 >>,
            << "summary", 257, 257 >>, << "filler", 0, 288 >>,
            << "summary", 289, 289 >>, << "summary", 321, 321 >>,
            << "filler", 0, 352 >>, << "summary", 353, 353 >>,
            << "eventlist", 0, 385 >>, << "eventlist", 0, 386 >>,
            << "eventlist", 0, 387 >>, << "eventlist", 0, 388 >>,
            << "eventlist", 0, 389 >>, << "eventlist", 0, 390 >>,
            << "source", 401, 401 >>}
        \cup {<< "daily", p, p >> : p \in 4..34}
        \cup {<< "daily", p, p >> : p \in 36..64}
        \cup {<< "daily", p, p >> : p \in 66..96}
        \cup {<< "daily", p, p >> : p \in 98..127}
        \cup {<< "daily", p, p >> : p \in 130..160}
        \cup {<< "daily", p, p >> : p \in 162..191}
        \cup {<< "daily", p, p >> : p \in 194..224}
        \cup {<< "daily", p, p >> : p \in 226..256}
        \cup {<< "daily", p, p >> : p \in 258..287}
        \cup {<< "daily", p, p >> : p \in 290..320}
        \cup {<< "daily", p, p >> : p \in 322..351}
        \cup {<< "daily", p, p >> : p \in 354..384}
        \cup {<< "extra", p, p >> : p \in 391..400}
      [] tm = FALSE /\ sp = "4up" /\ ev = FALSE /\ src = FALSE ->
        {<< "title", 1, 1 >>, << "filler", 0, 2 >>,
            << "summary", 3, 3 >>, << "filler", 0, 20 >>,
            << "summary", 21, 21 >>, << "summary", 37, 37 >>,
            << "filler", 0, 54 >>, << "summary", 55, 55 >>,
            << "summary", 71, 71 >>, << "filler", 0, 88 >>,
            << "summary", 89, 89 >>, << "summary", 105, 105 >>,
            << "filler", 0, 122 >>, << "summary", 123, 123 >>,
            << "filler", 0, 140 >>, << "summary", 141, 141 >>,
            << "summary", 157, 157 >>, << "filler", 0, 174 >>,
            << "summary", 175, 175 >>, << "summary", 191, 191 >>,
            << "filler", 0, 208 >>}
        \cup {<< "daily", p, p >> : p \in 4..19}
        \cup {<< "daily", p, p >> : p \in 22..36}
        \cup {<< "daily", p, p >> : p \in 38..53}
        \cup {<< "daily", p, p >> : p \in 56..70}
        \cup {<< "daily", p, p >> : p \in 72..87}
        \cup {<< "daily", p, p >> : p \in 90..104}
        \cup {<< "daily", p, p >> : p \in 106..121}
        \cup {<< "daily", p, p >> : p \in 124..139}
        \cup {<< "daily", p, p >> : p \in 142..156}
        \cup {<< "daily", p, p >> : p \in 158..173}
        \cup {<< "daily", p, p >> : p \in 176..190}
        \cup {<< "daily", p, p >> : p \in 192..207}
        \cup {<< "extra", p, p >> : p \in 209..218}
      [] tm = FALSE /\ sp = "4up" /\ ev = FALSE /\ src = TRUE ->
        {<< "title", 1, 1 >>, << "filler", 0, 2 >>,
            << "summary", 3, 3 >>, << "filler", 0, 20 >>,
            << "summary", 21, 21 >>, << "summary", 37, 37 >>,
            << "filler", 0, 54 >>, << "summary", 55, 55 >>,
            << "summary", 71, 71 >>, << "filler", 0, 88 >>,
            << "summary", 89, 89 >>, << "summary", 105, 105 >>,
            << "filler", 0, 122 >>, << "summary", 123, 123 >>,
            << "filler", 0, 140 >>, << "summary", 141, 141 >>,
            << "summary", 157, 157 >>, << "filler", 0, 174 >>,
            << "summary", 175, 175 >>, << "summary", 191, 191 >>,
            << "filler", 0, 208 >>, << "source", 219, 219 >>}
        \cup {<< "daily", p, p >> : p \in 4..19}
        \cup {<< "daily", p, p >> : p \in 22..36}
        \cup {<< "daily", p, p >> : p \in 38..53}
        \cup {<< "daily", p, p >> : p \in 56..70}
        \cup {<< "daily", p, p >> : p \in 72..87}
        \cup {<< "daily", p, p >> : p \in 90..104}
        \cup {<< "daily", p, p >> : p \in 106..121}
        \cup {<< "daily", p, p >> : p \in 124..139}
        \cup {<< "daily", p, p >> : p \in 142..156}
        \cup {<< "daily", p, p >> : p \in 158..173}
        \cup {<< "daily", p, p >> : p \in 176..190}
        \cup {<< "daily", p, p >> : p \in 192..207}
        \cup {<< "extra", p, p >> : p \in 209..218}
      [] tm = FALSE /\ sp = "4up" /\ ev = TRUE /\ src = FALSE ->
        {<< "title", 1, 1 >>, << "filler", 0, 2 >>,
            << "summary", 3, 3 >>, << "filler", 0, 20 >>,
            << "summary", 21, 21 >>, << "summary", 37, 37 >>,
            << "filler", 0, 54 >>, << "summary", 55, 55 >>,
            << "summary", 71, 71 >>, << "filler", 0, 88 >>,
            << "summary", 89, 89 >>, << "summary", 105, 105 >>,
            << "filler", 0, 122 >>, << "summary", 123, 123 >>,
            << "filler", 0, 140 >>, << "summary", 141, 141 >>,
            << "summary", 157, 157 >>, << "filler", 0, 174 >>,
            << "summary", 175, 175 >>, << "summary", 191, 191 >>,
            << "filler", 0, 208 >>, << "eventlist", 0, 209 >>,
            << "eventlist", 0, 210 >>, << "eventlist", 0, 211 >>,
            << "eventlist", 0, 212 >>, << "eventlist", 0, 213 >>,
            << "eventlist", 0, 214 >>}
        \cup {<< "daily", p, p >> : p \in 4..19}
        \cup {<< "daily", p, p >> : p \in 22..36}
        \cup {<< "daily", p, p >> : p \in 38..53}
        \cup {<< "daily", p, p >> : p \in 56..70}
        \cup {<< "daily", p, p >> : p \in 72..87}
        \cup {<< "daily", p, p >> : p \in 90..104}
        \cup {<< "daily", p, p >> : p \in 106..121}
        \cup {<< "daily", p, p >> : p \in 124..139}
        \cup {<< "daily", p, p >> : p \in 142..156}
        \cup {<< "daily", p, p >> : p \in 158..173}
        \cup {<< "daily", p, p >> : p \in 176..190}
        \cup {<< "daily", p, p >> : p \in 192..207}
        \cup {<< "extra", p, p >> : p \in 215..224}
      [] tm = FALSE /\ sp = "4up" /\ ev = TRUE /\ src = TRUE ->
        {<< "title", 1, 1 >>, << "filler", 0, 2 >>,
            << "summary", 3, 3 >>, << "filler", 0, 20 >>,
            << "summary", 21, 21 >>, << "summary", 37, 37 >>,
            << "filler", 0, 54 >>, << "summary", 55, 55 >>,
            << "summary", 71, 71 >>, << "filler", 0, 88 >>,
            << "summary", 89, 89 >>, << "summary", 105, 105 >>,
            << "filler", 0, 122 >>, << "summary", 123, 123 >>,
            << "filler", 0, 140 >>, << "summary", 141, 141 >>,
            << "summary", 157, 157 >>, << "filler", 0, 174 >>,
            << "summary", 175, 175 >>, << "summary", 191, 191 >>,
            << "filler", 0, 208 >>, << "eventlist", 0, 209 >>,
            << "eventlist", 0, 210 >>, << "eventlist", 0, 211 >>,
            << "eventlist", 0, 212 >>, << "eventlist", 0, 213 >>,
            << "eventlist", 0, 214 >>, << "source", 225, 225 >>}
        \cup {<< "daily", p, p >> : p \in 4..19}
        \cup {<< "daily", p, p >> : p \in 22..36}
        \cup {<< "daily", p, p >> : p \in 38..53}
        \cup {<< "daily", p, p >> : p \in 56..70}
        \cup {<< "daily", p, p >> : p \in 72..87}
        \cup {<< "daily", p, p >> : p \in 90..104}
        \cup {<< "daily", p, p >> : p \in 106..121}
        \cup {<< "daily", p, p >> : p \in 124..139}
        \cup {<< "daily", p, p >> : p \in 142..156}
        \cup {<< "daily", p, p >> : p \in 158..173}
        \cup {<< "daily", p, p >> : p \in 176..190}
        \cup {<< "daily", p, p >> : p \in 192..207}
        \cup {<< "extra", p, p >> : p \in 215..224}
      [] tm = TRUE /\ sp = "2up" /\ ev = FALSE /\ src = FALSE ->
        {<< "title", 1, 1 >>, << "filler", 0, 2 >>,
            << "summary", 35, 3 >>, << "daily", 64, 8 >>,
            << "filler", 0, 9 >>, << "daily", 190, 10 >>,
            << "filler", 0, 13 >>}
        \cup {<< "daily", p, p - 32 >> : p \in 36..39}
        \cup {<< "daily", p, p - 336 >> : p \in 347..348}
        \cup {<< "daily", p, p - 364 >> : p \in 378..380}
        \cup {<< "extra", p, p - 364 >> : p \in 381..382}
      [] tm = TRUE /\ sp = "2up" /\ ev = FALSE /\ src = TRUE ->
        {<< "title", 1, 1 >>, << "filler", 0, 2 >>,
            << "summary", 35, 3 >>, << "daily", 64, 8 >>,
            << "filler", 0, 9 >>, << "daily", 190, 10 >>,
            << "filler", 0, 13 >>, << "source", 391, 19 >>}
        \cup {<< "daily", p, p - 32 >> : p \in 36..39}
        \cup {<< "daily", p, p - 336 >> : p \in 347..348}
        \cup {<< "daily", p, p - 364 >> : p \in 378..380}
        \cup {<< "extra", p, p - 364 >> : p \in 381..382}
      [] tm = TRUE /\ sp = "2up" /\ ev = TRUE /\ src = FALSE ->
        {<< "title", 1, 1 >>, << "filler", 0, 2 >>,
            << "summary", 35, 3 >>, << "daily", 64, 8 >>,
            << "filler", 0, 9 >>, << "daily", 190, 10 >>,
            << "filler", 0, 13 >>, << "eventlist", 0, 17 >>,
            << "eventlist", 0, 18 >>, << "eventlist", 0, 19 >>,
            << "eventlist", 0, 20 >>, << "eventlist", 0, 21 >>,
            << "eventlist", 0, 22 >>}
        \cup {<< "daily", p, p - 32 >> : p \in 36..39}
        \cup {<< "daily", p, p - 336 >> : p \in 347..348}
        \cup {<< "daily", p, p - 364 >> : p \in 378..380}
        \cup {<< "extra", p, p - 364 >> : p \in 387..388}
      [] tm = TRUE /\ sp = "2up" /\ ev = TRUE /\ src = TRUE ->
        {<< "title", 1, 1 >>, << "filler", 0, 2 >>,
            << "summary", 35, 3 >>, << "daily", 64, 8 >>,
            << "filler", 0, 9 >>, << "daily", 190, 10 >>,
            << "filler", 0, 13 >>, << "eventlist", 0, 17 >>,
            << "eventlist", 0, 18 >>, << "eventlist", 0, 19 >>,
            << "eventlist", 0, 20 >>, << "eventlist", 0, 21 >>,
            << "eventlist", 0, 22 >>, << "source", 397, 25 >>}
        \cup {<< "daily", p, p - 32 >> : p \in 36..39}
        \cup {<< "daily", p, p - 336 >> : p \in 347..348}
        \cup {<< "daily", p, p - 364 >> : p \in 378..380}
        \cup {<< "extra", p, p - 364 >> : p \in 387..388}
      [] tm = TRUE /\ sp = "4up" /\ ev = FALSE /\ src = FALSE ->
        {<< "title", 1, 1 >>, << "filler", 0, 2 >>,
            << "summary", 19, 3 >>, << "daily", 34, 6 >>,
            << "filler", 0, 7 >>, << "daily", 100, 8 >>,
            << "daily", 183, 9 >>, << "filler", 0, 10 >>}
        \cup {<< "daily", p, p - 16 >> : p \in 20..21}
        \cup {<< "daily", p, p - 188 >> : p \in 199..200}
        \cup {<< "extra", p, p - 188 >> : p \in 201..202}
      [] tm = TRUE /\ sp = "4up" /\ ev = FALSE /\ src = TRUE ->
        {<< "title", 1, 1 >>, << "filler", 0, 2 >>,
            << "summary", 19, 3 >>, << "daily", 34, 6 >>,
            << "filler", 0, 7 >>, << "daily", 100, 8 >>,
            << "daily", 183, 9 >>, << "filler", 0, 10 >>,
            << "source", 211, 15 >>}
        \cup {<< "daily", p, p - 16 >> : p \in 20..21}
        \cup {<< "daily", p, p - 188 >> : p \in 199..200}
        \cup {<< "extra", p, p - 188 >> : p \in 201..202}
      [] tm = TRUE /\ sp = "4up" /\ ev = TRUE /\ src = FALSE ->
        {<< "title", 1, 1 >>, << "filler", 0, 2 >>,
            << "summary", 19, 3 >>, << "daily", 34, 6 >>,
            << "filler", 0, 7 >>, << "daily", 100, 8 >>,
            << "daily", 183, 9 >>, << "filler", 0, 10 >>,
            << "eventlist", 0, 13 >>, << "eventlist", 0, 14 >>,
            << "eventlist", 0, 15 >>, << "eventlist", 0, 16 >>,
            << "eventlist", 0, 17 >>, << "eventlist", 0, 18 >>}
        \cup {<< "daily", p, p - 16 >> : p \in 20..21}
        \cup {<< "daily", p, p - 188 >> : p \in 199..200}
        \cup {<< "extra", p, p - 188 >> : p \in 207..208}
      [] tm = TRUE /\ sp = "4up" /\ ev = TRUE /\ src = TRUE ->
        {<< "title", 1, 1 >>, << "filler", 0, 2 >>,
            << "summary", 19, 3 >>, << "daily", 34, 6 >>,
            << "filler", 0, 7 >>, << "daily", 100, 8 >>,
            << "daily", 183, 9 >>, << "filler", 0, 10 >>,
            << "eventlist", 0, 13 >>, << "eventlist", 0, 14 >>,
            << "eventlist", 0, 15 >>, << "eventlist", 0, 16 >>,
            << "eventlist", 0, 17 >>, << "eventlist", 0, 18 >>,
            << "source", 217, 21 >>}
        \cup {<< "daily", p, p - 16 >> : p \in 20..21}
        \cup {<< "daily", p, p - 188 >> : p \in 199..200}
        \cup {<< "extra", p, p - 188 >> : p \in 207..208}

\* the pages in the output, as triples << kind, logical number, position >>
Triples ==
    {<< out[i].kind,
        IF out[i].kind \in {"filler", "eventlist"} THEN 0 ELSE out[i].page,
        out[i].pos >> : i \in 1..Len(out)}

\* C28: the page sequence (logical numbers, filler positions, pages of every
\* month) depends only on test_mode, spread_mode, event_lists_enabled and
\* include_source: whatever num_years, num_writing_lines, align_mode, whimsy,
\* kanji_enabled and toc_enabled are, the finished document has the pages of
\* PageSequence for these four; and for every START_YEAR the days are
\* enumerated against a leap year, so every month has the same number of day
\* slots and February has 29.
C28_PaginationOfLowInputs ==
    /\ pc = "setup" =>
          /\ days_in_month(2) = 29
          /\ \A sy \in StartYears : \A m \in 1..12 :
                monthrange_days(first_leap_from(sy), m) = days_in_month(m)
    /\ pc = "done" =>
          Triples = PageSequence(test_mode, spread_mode, event_lists_enabled,
                                 include_source)

\* A finished 4up document with every option away from its default.
C28_Witness ==
    /\ pc = "done"
    /\ ~test_mode
    /\ spread_mode = "4up"
    /\ whimsy /\ kanji_enabled /\ toc_enabled
    /\ num_years = 1
    /\ num_writing_lines = 1
    /\ align_mode = "left"
    /\ Triples = PageSequence(test_mode, spread_mode, event_lists_enabled,
                              include_source)

====
